---- MODULE Spec2Model ----
(***************************************************************************)
(* RadiusAgent (agents/radagent.go): the request-processor loop of         *)
(* handleAuth / handleAcct and the steps of processRequest.                *)
(*                                                                         *)
(* One behaviour is one inbound packet handled by one handler.  The list   *)
(* of request processors is configuration: the loop reads one entry per    *)
(* iteration, so the flags of entry idx are drawn when the loop reaches    *)
(* it.  The results of the collaborators (filterS.Pass, SetFields,         *)
(* connMgr.Call, radauthReq, radReplyAppendAttributes) are inputs.         *)
(*                                                                         *)
(* RadiusAgent.ListenAndServe: the two listener goroutines, the errListen  *)
(* channel and the receive of the caller (SpecListen).                     *)
(*                                                                         *)
(* Loader (package loaders): one ProcessFolder pass over the configured    *)
(* loader types, with lockFolder / unlockFolder, processFiles,             *)
(* processContent, storeLoadedData / removeLoadedData and moveFiles        *)
(* (SpecLoader), and two ProcessFolder passes running on the same folder   *)
(* (SpecPasses).  The csv records, the results of UpdateFromCSV, of the    *)
(* DataManager and of the cache connection are inputs.                     *)
(*                                                                         *)
(* The filters of the four configured request processors, evaluated on     *)
(* one credit-control request (SpecMatch).                                 *)
(*                                                                         *)
(* FileCSVee (package ees): goroutines calling ExportEvent on one exporter *)
(* while OnEvicted composes the trailer, flushes and closes the file       *)
(* (SpecExport).  The results of SetFields, of FieldAsString and of        *)
(* csvWriter.Write are inputs.                                             *)
(***************************************************************************)
EXTENDS Naturals, Sequences, FiniteSets

VARIABLES
    pc,            \* position of the handler: idle, filter, reqfields, switch, cdrs, replyfields, ret, end, done
    handler,       \* "auth" (handleAuth) or "acct" (handleAcct), "" before a packet arrives
    nProcs,        \* len(ra.cgrCfg.RadiusAgentCfg().RequestProcessors)
    idx,           \* index of the processor of the current loop iteration
    flags,         \* reqProcessor.Flags of the current processor (keys of the map)
    matched,       \* filterS.Pass returned pass=true, err=nil for the current processor
    reqType,       \* local reqType of processRequest ("" until identified)
    branches,      \* cases of the switch entered by the current processRequest, in order
    calls,         \* session RPC methods called by the current processRequest, in order
    callErr,       \* error returned by the action RPC of the current processRequest
    radauthRes,    \* (pass, err) returned by radauthReq in the current processRequest, <<>> if not called
    usage,         \* cgrEv.Event[Usage]: "req", "0" or "MaxUsage"
    cdrUsage,      \* Usage carried by the ProcessCDR call of the current processor
    radReqType,    \* *vars.*radReqType as seen by the filters of the current processor
    replyTried,    \* SetFields(ReplyFields) was called by the current processRequest
    cgrepError,    \* *cgrep.Error (cgrRplyNM is shared by all processors of the packet)
    lclProcessed,  \* first result of the last processRequest
    err,           \* err of the handler (second result of the last processRequest)
    processed,     \* processed of the handler
    rplyNM,        \* processors whose reply-fields were written into *rep
    trace,         \* one summary per finished loop iteration
    nCalls,        \* session RPCs issued for the packet so far
    reply,         \* what the handler returned: pending, none, packet, error
    procId,        \* id of the configured processor the current one is, "" for any other
    reqIn,         \* the attributes of the request the request-fields of the processor read
    reqOut,        \* request-field templates applied by the current processRequest, in order
    maxUsage,      \* *cgrep.MaxUsage, "" when the reply map has none
    actUsage,      \* Usage carried by the action RPC of the current processor
    cdrErr,        \* error returned by the ProcessCDR call of the current processor
    repOut,        \* reply-field templates applied by the current processRequest, in order
    \* ---- RadiusAgent.ListenAndServe ----
    errListen,     \* the channel variable errListen
    lsMain,        \* position of ListenAndServe: start, spawnedAuth, recv, parked, returned
    lsAuth,        \* position of the auth goroutine: "", listen, send, parked, exit
    lsAcct,        \* position of the acct goroutine: "", listen, send, parked, exit
    lsAuthErr,     \* result of ra.rsAuth.ListenAndServe()
    lsAcctErr,     \* result of ra.rsAcct.ListenAndServe()
    lsRet,         \* err returned by RadiusAgent.ListenAndServe
    \* ---- Loader.ProcessFolder ----
    ldPc,          \* position of the pass: idle, types, files, row, rowend, final, typeret, move, done, panic, crashed
    ldDir,         \* names of the files in ldr.tpInDir
    ldOut,         \* names of the files in ldr.tpOutDir
    ldLocked,      \* lockFolder of this pass succeeded
    ldLoadOption,  \* argument loadOption of ProcessFolder
    ldRdrs,        \* ldr.rdrs in the order of the range over it: type, *partial flag, number of files
    ldTypeRes,     \* err of processFiles for every type finished so far
    ldType,        \* loaderType of the current type
    ldPartial,     \* ldr.flagsTpls[loaderType] has *partial
    ldDryRun,      \* the values ldr.dryRun can have, given what the flushes of the pass have read
    ldCacheConns,  \* the values len(ldr.cacheConns) can have, likewise
    ldCaching,     \* the values the argument caching of ProcessFolder can have, likewise
    ldNFiles,      \* len(ldr.rdrs[loaderType]) of the current type
    ldOpened,      \* files of the current type whose reader entry is not nil
    ldEOF,         \* readers of the current type that returned io.EOF
    ldReads,       \* records returned by the readers in this pass
    ldVisited,     \* readers already read in the current row
    ldData,        \* lData of the current row: files decoded into it, and its tenant:ID
    ldHasErrors,   \* hasErrors of the current row
    ldKeepLooping, \* keepLooping of the current processContent / removeContent
    ldBuf,         \* ldr.bufLoaderData: entries <<tenant:ID, rows>>
    ldDm,          \* Data Manager calls of the last flush, in order
    ldCache,       \* CacheSv1 calls of the last flush, in order
    ldDmTotal,     \* Data Manager calls of the pass
    ldErr,         \* err returned by processFiles for the current type
    ldRet,         \* err returned by ProcessFolder
    ldLog,         \* the storeLoadedData / removeLoadedData calls of the current type, in order
    ldRowsIn,      \* rows appended to ldr.bufLoaderData while the current type was processed
    ldListed,      \* filesInDir of moveFiles: the entries its ioutil.ReadDir returned
    \* ---- concurrent ProcessFolder passes ----
    psDir,         \* names of the files in the shared tpInDir
    psOut,         \* names of the files in tpOutDir
    psPc,          \* position of each pass: idle, types, rename, unlock, done
    psTypes,       \* len(ldr.rdrs) of the loader of each pass
    psDone,        \* loader types each pass has ranged over
    psRet,         \* err returned by ProcessFolder, per pass
    psListed,      \* filesInDir of moveFiles not yet ranged over, per pass
    \* ---- the filters of the configured request processors ----
    mtCCR,         \* the request: *vars.*cmd, CC-Request-Type, CC-Request-Number, Service-Context-Id
    mtIdx,         \* configured processors whose filters were evaluated against the request
    mtMatched,     \* ids of the processors whose filters all passed
    \* ---- FileCSVee (package ees) ----
    exMu,          \* holder of the mutex of the FileCSVee, "" when it is free
    exPc,          \* position of each calling goroutine in ExportEvent: idle, lock, count, store, fields, atime, write, unlock
    exRead,        \* dc[NumberOfEvents] as each goroutine read it for its increment
    exEv,          \* cgrEv of the current call of each goroutine: its ID and AnswerTime (0: none)
    exErr,         \* err of the current call of each goroutine
    exCalls,       \* ExportEvent calls made so far
    exOKIds,       \* IDs of the events whose ExportEvent call returned nil
    exATimes,      \* AnswerTimes of the events exported so far
    exRows,        \* rows handed to csvWriter.Write, in order: header, event (with its ID) or trailer, written whole or not
    exFile,        \* fCsv.file: open or closed
    evPc,          \* position of OnEvicted: idle, flush, close, done
    evTrailer,     \* dc[NumberOfEvents] as composeTrailer read it
    dcNumberOfEvents, \* fCsv.dc[NumberOfEvents]
    dcFirstEventATime, \* fCsv.dc[FirstEventATime], 0 for the zero time
    dcLastEventATime, \* fCsv.dc[LastEventATime], 0 for the zero time
    dcPositiveExports, \* fCsv.dc[PositiveExports]
    dcNegativeExports \* fCsv.dc[NegativeExports]

lsVars == <<errListen, lsMain, lsAuth, lsAcct, lsAuthErr, lsAcctErr, lsRet>>

radVars == <<pc, handler, nProcs, idx, flags, matched, reqType, branches, calls, callErr,
          radauthRes, usage,
          cdrUsage, radReqType, replyTried, cgrepError, lclProcessed, err, processed,
          rplyNM, trace, nCalls, reply,
          procId, reqIn, reqOut, maxUsage, actUsage, cdrErr, repOut>>

\* the state added for the processors of the configuration
tplVars == <<procId, reqIn, reqOut, maxUsage, actUsage, cdrErr, repOut>>

ldVars == <<ldPc, ldDir, ldOut, ldLocked, ldLoadOption, ldRdrs, ldTypeRes, ldType,
           ldPartial, ldDryRun, ldCacheConns, ldCaching, ldNFiles, ldOpened, ldEOF, ldReads,
           ldVisited, ldData, ldHasErrors, ldKeepLooping, ldBuf, ldDm, ldCache, ldDmTotal,
           ldErr, ldRet, ldLog, ldRowsIn, ldListed>>

psVars == <<psDir, psOut, psPc, psTypes, psDone, psRet, psListed>>

mtVars == <<mtCCR, mtIdx, mtMatched>>

exVars == <<exMu, exPc, exRead, exEv, exErr, exCalls, exOKIds, exATimes, exRows, exFile, evPc, evTrailer, dcNumberOfEvents, dcFirstEventATime, dcLastEventATime, dcPositiveExports, dcNegativeExports>>

vars == <<radVars, lsVars, ldVars, psVars, mtVars, exVars>>

\* what the actions of each component leave unchanged
notRadius == <<lsVars, ldVars, psVars, mtVars, exVars>>
notListen == <<radVars, ldVars, psVars, mtVars, exVars>>
notLoader == <<radVars, lsVars, psVars, mtVars, exVars>>
notPasses == <<radVars, lsVars, ldVars, mtVars, exVars>>
notMatch == <<radVars, lsVars, ldVars, psVars, exVars>>
notExport == <<radVars, lsVars, ldVars, psVars, mtVars>>

\* ---- bounds ----
MaxProcs == 2
MaxFlags == 2
MaxTypes == 2
MaxFiles == 1
MaxReads == 2
MaxRows == 3
MaxReqNumber == 3
MaxCalls == 2
MaxTime == 2

\* ---- values ----
NoErr == "nil"

\* ---- values of FileCSVee ----
\* goroutines calling ExportEvent on the same FileCSVee
Exporters == {"g1", "g2"}
\* AnswerTime of an event: 0 when the event has none
AnswerTimes == 0..MaxTime
NoEvent == [id |-> 0, aTime |-> 0]
\* err of fCsv.SetFields / of the FieldAsString of a composed field
ErrSetFields == "SETFIELDS_ERROR"
ErrFieldAsString == "FIELD_AS_STRING_ERROR"
\* results of csvWriter.Write: the row is buffered whole, or the write
\* fails with nothing or with a part of the row buffered
WriteResults == {"ok", "failed", "partial"}
ErrFilter == "FILTER_ERROR"
ErrRequestFields == "REQUEST_FIELDS_ERROR"
ErrReplyFields == "REPLY_FIELDS_ERROR"
ErrUnknownType == "unknown request type"
ErrRals == "RALS_ERROR:MAX_USAGE_EXCEEDED"
ErrRPC == "RPC_ERROR"
ErrRadauth == "RADAUTH_ERROR"
RadauthFailed == "RADAUTH_FAILED"

MetaRadReqType == "*radReqType"
MetaRadAuth == "*radAuth"

MetaDryRun == "*dryrun"
MetaAuthorize == "*authorize"
MetaInitiate == "*initiate"
MetaUpdate == "*update"
MetaTerminate == "*terminate"
MetaMessage == "*message"
MetaCDRs == "*cdrs"
MetaEvent == "*event"
MetaNone == "*none"
MetaRadauth == "*radauth"
MetaContinue == "*continue"
MetaAccounts == "*accounts"
MetaAuth == "*auth"
MetaInit == "*init"

\* the typ list of the loop that identifies the request type
ReqTypes == <<MetaDryRun, MetaAuthorize, MetaInitiate, MetaUpdate, MetaTerminate,
              MetaMessage, MetaCDRs, MetaEvent, MetaNone, MetaRadauth>>

ActionFlags == {ReqTypes[i] : i \in 1..Len(ReqTypes)}

\* flags a processor may be configured with: the request types and the
\* flags the handlers and processRequest test with HasKey
AllFlags == ActionFlags \cup {MetaContinue, MetaAccounts, MetaAuth, MetaInit}

\* ---- the request processors of the configuration file ----

ProcessorIDs == {"VoiceInit", "VoiceUpdate1", "VoiceUpdate2", "VoiceTerminate"}

\* "flags" of each processor
ProcessorFlags(p) ==
    CASE p = "VoiceInit" -> {MetaAuthorize, MetaAccounts}
      [] p = "VoiceUpdate1" -> {MetaInitiate, MetaAccounts}
      [] p = "VoiceUpdate2" -> {MetaUpdate, MetaAccounts}
      [] p = "VoiceTerminate" -> {MetaTerminate, MetaAccounts, MetaCDRs}

\* a *message processor that debits and writes a CDR
DebitCDRFlags == {MetaMessage, MetaAccounts, MetaCDRs}

\* the subsets of s with at most n elements
RECURSIVE SubsetsUpTo(_, _)
SubsetsUpTo(s, n) ==
    IF n = 0 THEN {{}}
    ELSE LET r == SubsetsUpTo(s, n - 1)
         IN r \cup {t \cup {x} : t \in r, x \in s}

\* the flags only the *event case reads: needMaxUsage tests *auth and *init
\* (and *update, which is a request type as well)
EventOnlyFlags == {MetaAuth, MetaInit}

\* the flag sets a processor is configured with: up to MaxFlags flags, and
\* the sets of the configured processors.  *auth and *init are drawn
\* together with *event: no other statement of the handlers or of
\* processRequest reads them, so without *event they change nothing
FlagSets == {f \in SubsetsUpTo(AllFlags, MaxFlags) :
                f \cap EventOnlyFlags /= {} => MetaEvent \in f}
            \cup {ProcessorFlags(p) : p \in ProcessorIDs} \cup {DebitCDRFlags}

\* results of connMgr.Call
CallErrs == {NoErr, ErrRals, ErrRPC}

\* results of radauthReq: (pass, err)
RadauthResults == {<<TRUE, NoErr>>, <<FALSE, NoErr>>, <<FALSE, ErrRadauth>>}

\* results of filterS.Pass: (pass, err)
PassResults == {<<TRUE, NoErr>>, <<FALSE, NoErr>>, <<FALSE, ErrFilter>>}

\* var errListen chan error: declared, never made
NilChan == "nil"

\* results of radigo.Server.ListenAndServe
ListenErrs == {"bind: address already in use", "listen: permission denied", "use of closed network connection"}

\* ---- helpers of processRequest ----

\* Flags.HasKey
HasKey(fl, k) == k \in fl

\* for _, typ := range []string{...} { if Flags.HasKey(typ) { reqType = typ; break } }
RECURSIVE FirstTyp(_, _)
FirstTyp(fl, i) ==
    IF i > Len(ReqTypes) THEN ""
    ELSE IF HasKey(fl, ReqTypes[i]) THEN ReqTypes[i]
    ELSE FirstTyp(fl, i + 1)

\* the same loop without its break: the last typ present wins
RECURSIVE LastTyp(_, _)
LastTyp(fl, i) ==
    IF i > Len(ReqTypes) THEN ""
    ELSE LET rest == LastTyp(fl, i + 1)
         IN IF rest /= "" THEN rest
            ELSE IF HasKey(fl, ReqTypes[i]) THEN ReqTypes[i] ELSE ""

IdentifyLastWins(fl) == LastTyp(fl, 1)

IdentifyReqType(fl) == FirstTyp(fl, 1)

\* the cases of the switch that call the session service, with their method
RPCMethod(t) ==
    CASE t = MetaAuthorize -> "AuthorizeEvent"
      [] t = MetaInitiate -> "InitiateSession"
      [] t = MetaUpdate -> "UpdateSession"
      [] t = MetaTerminate -> "TerminateSession"
      [] t = MetaMessage -> "ProcessMessage"
      [] t = MetaEvent -> "ProcessEvent"
      [] OTHER -> ""

\* the *event case entered without its call
IsRPCCaseButEvent(t) == RPCMethod(t) /= "" /\ t /= MetaEvent

\* the cases of the switch that issue connMgr.Call
IsRPCCase(t) == RPCMethod(t) /= ""

\* an unknown type handled like *none
NoDefaultCase(t) == FALSE

\* switch reqType { default: return false, unknown request type
IsDefaultCase(t) == t \notin ActionFlags

\* the case label of the switch that reqType selects
SwitchCase(t) == IF IsDefaultCase(t) THEN "default" ELSE t

\* err.Error() stored as *cgrep.Error; the reply of a successful call enforces Error ""
setCGRReplyError(e) == IF e /= NoErr THEN e ELSE ""

\* the error returned by setCGRReply itself
setCGRReplyReturn(e) == NoErr

\* abort as soon as the call failed
AbortOnCallErr(ce, se) == ce /= NoErr \/ se /= NoErr

\* if err = agReq.setCGRReply(rply, err); err != nil { return }
ActionAborts(ce, se) == se /= NoErr

\* utils.ErrHasPrefix(err, utils.RalsErrorPrfx)
HasRalsPrefix(e) == e = ErrRals

\* *message: evArgs.Debit is the *accounts flag; *event: needMaxUsage
NeedMaxUsage(t, fl) ==
    \/ t = MetaMessage /\ HasKey(fl, MetaAccounts)
    \/ t = MetaEvent /\ (HasKey(fl, MetaAuth) \/ HasKey(fl, MetaInit) \/ HasKey(fl, MetaUpdate))

\* mutant of UsageAfter: the debit is looked at before the error prefix
UsageAfterDebitFirst(t, fl, e, u) ==
    IF t \notin {MetaMessage, MetaEvent} THEN u
    ELSE IF NeedMaxUsage(t, fl) THEN "MaxUsage"
    ELSE IF HasRalsPrefix(e) THEN "0"
    ELSE u

\* cgrEv.Event[utils.Usage] after a *message or *event call
UsageAfter(t, fl, e, u) ==
    IF t \notin {MetaMessage, MetaEvent} THEN u
    ELSE IF HasRalsPrefix(e) THEN "0"
    ELSE IF NeedMaxUsage(t, fl) THEN "MaxUsage"
    ELSE u

\* a failed verification (pass=false, no error) leaves *cgrep untouched
RadauthErrorOnly(r, cur) == IF r[2] /= NoErr THEN r[2] ELSE cur

\* *cgrep.Error after radauthReq: err.Error(), RADAUTH_FAILED on !pass, else untouched
RadauthCgrepError(r, cur) ==
    IF r[2] /= NoErr THEN r[2]
    ELSE IF ~r[1] THEN RadauthFailed
    ELSE cur

\* if reqProcessor.Flags.HasKey(utils.MetaCDRs)
WantsCDRs(fl) == HasKey(fl, MetaCDRs)

\* mutant of CDRReplyError: the error of ProcessCDR is dropped
CDRReplyErrorDropped(ce, cur) == cur

\* mutant of CDRReplyError: a successful ProcessCDR clears *cgrep.Error
CDRReplyErrorClears(ce, cur) == IF ce /= NoErr THEN ce ELSE ""

\* *cgrep.Error after ProcessCDR: agReq.CGRReply.Set(Error, err.Error()) on error only
CDRReplyError(ce, cur) == IF ce /= NoErr THEN ce ELSE cur

\* MaxUsage values a session reply carries: 3600s, and -1 for unlimited
MaxUsages == {"3600s", "-1"}

\* MaxUsage of the reply of the action RPC: the calls that debit (*accounts)
\* return one, TerminateSession has no reply fields
ReplyMaxUsage(t, fl) ==
    IF t \in {MetaAuthorize, MetaInitiate, MetaUpdate, MetaMessage, MetaEvent} /\ HasKey(fl, MetaAccounts)
    THEN MaxUsages
    ELSE {""}

\* *cgrep.MaxUsage after setCGRReply: the reply map is replaced, by {Error} on failure
setCGRReplyMaxUsage(e, mu) == IF e /= NoErr THEN "" ELSE mu

\* ---- the filters of the configured processors ----

\* the processors in the order of the configuration file
ProcessorOrder == <<"VoiceInit", "VoiceUpdate1", "VoiceUpdate2", "VoiceTerminate">>

PathCmd == "~*vars.*cmd"
PathRequestType == "~*req.CC-Request-Type"
PathRequestNumber == "~*req.CC-Request-Number"
PathContext == "~*req.Service-Context-Id"

\* one filter "op:path:value"
Filter(op, path, value) == [op |-> op, path |-> path, value |-> value]

\* mutant of ProcessorFilters: VoiceUpdate2 takes every CC-Request-Number from 1 on
ProcessorFiltersFromOne(p) ==
    CASE p = "VoiceInit" ->
           <<Filter("*string", PathCmd, "CCR"), Filter("*string", PathRequestType, "1"),
             Filter("*string", PathContext, "voice")>>
      [] p = "VoiceUpdate1" ->
           <<Filter("*string", PathCmd, "CCR"), Filter("*string", PathRequestType, "2"),
             Filter("*eq", PathRequestNumber, "1"), Filter("*string", PathContext, "voice")>>
      [] p = "VoiceUpdate2" ->
           <<Filter("*string", PathCmd, "CCR"), Filter("*string", PathContext, "voice"),
             Filter("*string", PathRequestType, "2"), Filter("*gte", PathRequestNumber, "1")>>
      [] p = "VoiceTerminate" ->
           <<Filter("*string", PathCmd, "CCR"), Filter("*string", PathContext, "voice"),
             Filter("*string", PathRequestType, "3")>>

\* "filters" of each processor
ProcessorFilters(p) ==
    CASE p = "VoiceInit" ->
           <<Filter("*string", PathCmd, "CCR"), Filter("*string", PathRequestType, "1"),
             Filter("*string", PathContext, "voice")>>
      [] p = "VoiceUpdate1" ->
           <<Filter("*string", PathCmd, "CCR"), Filter("*string", PathRequestType, "2"),
             Filter("*eq", PathRequestNumber, "1"), Filter("*string", PathContext, "voice")>>
      [] p = "VoiceUpdate2" ->
           <<Filter("*string", PathCmd, "CCR"), Filter("*string", PathContext, "voice"),
             Filter("*string", PathRequestType, "2"), Filter("*gte", PathRequestNumber, "2")>>
      [] p = "VoiceTerminate" ->
           <<Filter("*string", PathCmd, "CCR"), Filter("*string", PathContext, "voice"),
             Filter("*string", PathRequestType, "3")>>

\* the requests explored: the command, CC-Request-Type (1 initial, 2 update,
\* 3 termination, 4 event), CC-Request-Number and Service-Context-Id
CCRs == [cmd : {"CCR", "RAR"}, ctype : {"1", "2", "3", "4"},
         number : 0..MaxReqNumber, context : {"voice", "data"}]

\* no request
NoCCR == [cmd |-> "", ctype |-> "", number |-> 0, context |-> ""]

\* the number a filter value stands for
AsNumber(s) ==
    CASE s = "0" -> 0
      [] s = "1" -> 1
      [] s = "2" -> 2
      [] s = "3" -> 3

\* the string a *string filter reads at a path
StringAt(path, ccr) ==
    CASE path = PathCmd -> ccr.cmd
      [] path = PathRequestType -> ccr.ctype
      [] path = PathContext -> ccr.context

\* one processor-level filter against a request: *string compares the text,
\* *eq and *gte compare CC-Request-Number as a number
PassRequestFilter(f, ccr) ==
    CASE f.op = "*string" -> StringAt(f.path, ccr) = f.value
      [] f.op = "*eq" -> ccr.number = AsNumber(f.value)
      [] f.op = "*gte" -> ccr.number >= AsNumber(f.value)

\* a processor matches iff every filter of its list passes
Matches(p, ccr) ==
    \A i \in 1..Len(ProcessorFilters(p)) : PassRequestFilter(ProcessorFilters(p)[i], ccr)

\* ---- field templates of the configured processors ----

PathCCTime == "*rep.Granted-Service-Unit.CC-Time"
PathResultCode == "*rep.Result-Code"
PathUsage == "*cgreq.Usage"
PathOriginID == "*cgreq.OriginID"
PathOriginHost == "*cgreq.OriginHost"

FltrErrorNotEmpty == "*notempty:~*cgrep.Error:"
FltrUnlimited == "*eq:~*cgrep.MaxUsage:-1"
FltrSIPExists == "*exists:~*req.Service-Information.IMS-Information.Time-Stamps.SIP-Response-Timestamp:"
FltrSIPNotExists == "*notexists:~*req.Service-Information.IMS-Information.Time-Stamps.SIP-Response-Timestamp:"

SrcMaxUsageSeconds == "~*cgrep.MaxUsage{*duration_seconds}"
SrcSessionId == "~*req.Service-Information.IMS-Information.User-Session-Id"
SrcOriginHost == "~*vars.OriginHost"
SrcUsageDifference == "~*req.Event-Timestamp;~*req.Service-Information.IMS-Information.Time-Stamps.SIP-Response-Timestamp"

\* one field template: {tag, path, filters, type, value, mandatory, blocker}
Field(tag, path, filters, type, value, mandatory, blocker) ==
    [tag |-> tag, path |-> path, filters |-> filters, type |-> type, value |-> value,
     mandatory |-> mandatory, blocker |-> blocker]

\* mutant of GrantedUnitsFields: GrantedUnitsUnlimited is no blocker
GrantedUnitsFieldsNoBlocker(errTag) ==
    <<Field("CCATemplate", "", {}, "*template", "*cca", FALSE, FALSE),
      Field(errTag, PathCCTime, {FltrErrorNotEmpty}, "*constant", "0", FALSE, TRUE),
      Field("GrantedUnitsUnlimited", PathCCTime, {FltrUnlimited}, "*constant", "10", FALSE, FALSE),
      Field("GrantedUnits", PathCCTime, {}, "*variable", SrcMaxUsageSeconds, TRUE, FALSE)>>

\* "reply_fields" of VoiceInit, VoiceUpdate1 and VoiceUpdate2; they differ in
\* the tag of the error template
GrantedUnitsFields(errTag) ==
    <<Field("CCATemplate", "", {}, "*template", "*cca", FALSE, FALSE),
      Field(errTag, PathCCTime, {FltrErrorNotEmpty}, "*constant", "0", FALSE, TRUE),
      Field("GrantedUnitsUnlimited", PathCCTime, {FltrUnlimited}, "*constant", "10", FALSE, TRUE),
      Field("GrantedUnits", PathCCTime, {}, "*variable", SrcMaxUsageSeconds, TRUE, FALSE)>>

\* "reply_fields" of each processor
ReplyFields(p) ==
    CASE p = "VoiceInit" -> GrantedUnitsFields("GrantedUnitsError")
      [] p = "VoiceUpdate1" -> GrantedUnitsFields("GrantedUnitsError")
      [] p = "VoiceUpdate2" -> GrantedUnitsFields("GrantedUnitsOnError")
      [] p = "VoiceTerminate" ->
           <<Field("CCATemplate", "", {}, "*template", "*cca", FALSE, FALSE),
             Field("ResultCode", PathResultCode, {FltrErrorNotEmpty}, "*constant", "5030", FALSE, TRUE),
             Field("ResultCode", PathResultCode, {}, "*constant", "2001", FALSE, FALSE)>>

\* mutant of TerminateRequestFields: the constant Usage template has no filter
TerminateRequestFieldsUnfiltered ==
    <<Field("OriginID", PathOriginID, {}, "*variable", SrcSessionId, TRUE, FALSE),
      Field("OriginHost", PathOriginHost, {}, "*variable", SrcOriginHost, FALSE, FALSE),
      Field("Usage", PathUsage, {FltrSIPExists}, "*usage_difference", SrcUsageDifference, TRUE, FALSE),
      Field("Usage", PathUsage, {}, "*constant", "0s", FALSE, FALSE)>>

\* "request_fields" of VoiceTerminate
TerminateRequestFields ==
    <<Field("OriginID", PathOriginID, {}, "*variable", SrcSessionId, TRUE, FALSE),
      Field("OriginHost", PathOriginHost, {}, "*variable", SrcOriginHost, FALSE, FALSE),
      Field("Usage", PathUsage, {FltrSIPExists}, "*usage_difference", SrcUsageDifference, TRUE, FALSE),
      Field("Usage", PathUsage, {FltrSIPNotExists}, "*constant", "0s", FALSE, FALSE)>>

\* what the request-fields of VoiceTerminate read of a request: User-Session-Id,
\* Event-Timestamp and SIP-Response-Timestamp, "" when the attribute is missing
RequestInputs == [sessionId : {"", "sess1"}, eventTs : {"", "t2"}, sipTs : {"", "t1"}]

\* the request of a processor whose request-fields are not listed here
NoRequest == [sessionId |-> "", eventTs |-> "", sipTs |-> ""]

\* the configured processors that have the flags f, and "" for any other processor
ProcessorsWith(f) == {""} \cup {p \in ProcessorIDs : ProcessorFlags(p) = f}

\* the requests explored for a processor
RequestsOf(p) == IF p = "VoiceTerminate" THEN RequestInputs ELSE {NoRequest}

\* ---- AgentRequest.SetFields ----

NotFound == "NOT_FOUND"
ParseFailed == "PARSE_ERROR"
ErrNotFound == "NOT_FOUND:mandatory"
ErrTemplate == "TEMPLATE_ERROR"

\* one filter of a field template against the AgentRequest
PassFilter(f, env) ==
    CASE f = FltrErrorNotEmpty -> env.error /= ""
      [] f = FltrUnlimited -> env.maxUsage = "-1"
      [] f = FltrSIPExists -> env.sipTs /= ""
      [] f = FltrSIPNotExists -> env.sipTs = ""

\* {*duration_seconds}: a duration as its number of seconds; -1 is one
\* nanosecond below zero
DurationSeconds(v) ==
    CASE v = "3600s" -> "3600"
      [] v = "-1" -> "-0.000000001"
      [] OTHER -> v

\* the value a source path resolves to, "" when the path is not found
SourceValue(src, env) ==
    CASE src = SrcMaxUsageSeconds -> env.maxUsage
      [] src = SrcSessionId -> env.sessionId
      [] src = SrcOriginHost -> env.originHost
      [] OTHER -> ""

\* the conversion suffix of a source
Converted(src, raw) == IF src = SrcMaxUsageSeconds THEN DurationSeconds(raw) ELSE raw

\* the value of one template: NotFound when its source is missing
ParseField(t, env) ==
    CASE t.type = "*constant" -> t.value
      [] t.type = "*template" -> IF env.tplOK THEN t.value ELSE ParseFailed
      [] t.type = "*variable" ->
           IF SourceValue(t.value, env) = "" THEN NotFound
           ELSE Converted(t.value, SourceValue(t.value, env))
      [] t.type = "*usage_difference" ->
           IF env.eventTs = "" \/ env.sipTs = "" THEN NotFound ELSE "t2-t1"

\* a field marked blocker, once evaluated, ends the evaluation of the list
Truncates(t) == t.blocker

\* SetFields from template i on: a template whose filters fail is skipped, a
\* missing source is skipped unless mandatory, a blocker that was evaluated
\* truncates the list
RECURSIVE SetFieldsFrom(_, _, _, _)
SetFieldsFrom(tpls, i, env, out) ==
    IF i > Len(tpls) THEN [out |-> out, err |-> NoErr]
    ELSE IF \E f \in tpls[i].filters : ~PassFilter(f, env)
    THEN SetFieldsFrom(tpls, i + 1, env, out)
    ELSE IF ParseField(tpls[i], env) = ParseFailed THEN [out |-> out, err |-> ErrTemplate]
    ELSE IF ParseField(tpls[i], env) = NotFound
    THEN IF tpls[i].mandatory THEN [out |-> out, err |-> ErrNotFound]
         ELSE SetFieldsFrom(tpls, i + 1, env, out)
    ELSE IF Truncates(tpls[i])
    THEN [out |-> Append(out, <<tpls[i].tag, tpls[i].path, ParseField(tpls[i], env)>>), err |-> NoErr]
    ELSE SetFieldsFrom(tpls, i + 1, env,
                       Append(out, <<tpls[i].tag, tpls[i].path, ParseField(tpls[i], env)>>))

\* agReq.SetFields(list)
SetFields(tpls, env) == SetFieldsFrom(tpls, 1, env, <<>>)

\* the AgentRequest as the templates and their filters read it
AgentRequest(rq, e, mu, tplOK) ==
    [sessionId |-> rq.sessionId, eventTs |-> rq.eventTs, sipTs |-> rq.sipTs,
     originHost |-> "host1", error |-> e, maxUsage |-> mu, tplOK |-> tplOK]

\* agReq.SetFields(reqProcessor.RequestFields): template by template for
\* VoiceTerminate, by its outcome for any other processor
RequestFieldsResult(p, rq, ok) ==
    IF p = "VoiceTerminate" THEN SetFields(TerminateRequestFields, AgentRequest(rq, "", "", ok))
    ELSE [out |-> <<>>, err |-> IF ok THEN NoErr ELSE ErrNotFound]

\* agReq.SetFields(reqProcessor.ReplyFields): template by template for the
\* configured processors, by its outcome for any other processor
ReplyFieldsResult(p, e, mu, ok) ==
    IF p \in ProcessorIDs THEN SetFields(ReplyFields(p), AgentRequest(NoRequest, e, mu, ok))
    ELSE [out |-> <<>>, err |-> IF ok THEN NoErr ELSE ErrNotFound]

\* ---- helpers of the handlers ----

\* break only on error
BreakOnErrOnly(e, lp, fl) == e /= NoErr

\* break without looking at err
BreakOnProcessedOnly(e, lp, fl) == lp /\ ~HasKey(fl, MetaContinue)

\* if err != nil || (lclProcessed && !reqProcessor.Flags.GetBool(utils.MetaContinue)) { break }
BreakLoop(e, lp, fl) == e /= NoErr \/ (lp /\ ~HasKey(fl, MetaContinue))

\* a reply whenever something was written into *rep
ResultKeepsRep(e, p, rep, appendOK) ==
    IF e /= NoErr /\ rep = {} THEN "none"
    ELSE IF ~p /\ rep = {} THEN "none"
    ELSE IF ~appendOK THEN "error"
    ELSE "packet"

\* the processed check left out
ResultIgnoresProcessed(e, p, rep, appendOK) ==
    IF e /= NoErr THEN "none"
    ELSE IF ~appendOK THEN "error"
    ELSE "packet"

\* the err check left out
ResultIgnoresErr(e, p, rep, appendOK) ==
    IF ~p THEN "none"
    ELSE IF ~appendOK THEN "error"
    ELSE "packet"

\* if err != nil { return nil, nil } else if !processed { return nil, nil }
\* if err := radReplyAppendAttributes(rpl, rplyNM); err != nil { return nil, err }; return
HandlerResult(e, p, rep, appendOK) ==
    IF e /= NoErr THEN "none"
    ELSE IF ~p THEN "none"
    ELSE IF ~appendOK THEN "error"
    ELSE "packet"

\* agReq.Vars.Set(*radReqType, *radAuth) is in the loop of handleAuth only
SeedRadReqType(h, cur) == IF h = "auth" THEN MetaRadAuth ELSE cur

\* ---- the state machine ----

\* ---- Loader (loaders): values ----

\* ldr.lockFilename and the data files of tpInDir
LockFile == "lock"
DataFiles == {"a.csv", "b.csv"}

\* the names of tpInDir sorted by filename, the order of ioutil.ReadDir
FileOrder == <<"a.csv", "b.csv", LockFile>>

LoadOptions == {"*store", "*remove"}

\* the cases of switch loaderType in storeLoadedData / removeLoadedData
LoaderTypes == {"*attributes", "*resources", "*filters", "*stats", "*thresholds",
                "*routes", "*chargers", "*dispatchers", "*dispatcher_hosts", "*rate_profiles"}

\* the cases of switch caching, and one value outside them
CachingOptions == {"*none", "*reload", "*load", "*remove", "*clear", "*other"}

\* tenant:ID keys returned by lData.TenantID()
TenantIDs == {"cgrates.org:A", "cgrates.org:B", "cgrates.org:C"}

ErrLock == "LOCK_ERROR"
ErrOpen == "OPEN_ERROR"
ErrConvert == "CONVERT_ERROR"
ErrStorage == "STORAGE_ERROR"
ErrCache == "CACHE_ERROR"
ErrRename == "RENAME_ERROR"

\* len(ldr.cacheConns): none, or some
ConnCounts == {0, 1}

\* the files of a type with n configured files (keys of ldr.rdrs[loaderType])
FilesOf(n) == 1..n

\* one entry of ldr.rdrs: a loader type, its *partial flag, the number of its files
TypeConfigs(types, counts) ==
    {c \in [type : types, partial : BOOLEAN, files : counts] :
        c.partial => c.type = "*rate_profiles"}

\* ldr.rdrs in the order in which a pass ranges over it: the types are the
\* keys of a map, hence distinct
RdrsOf(cfgs, n) ==
    UNION {{s \in [1..k -> cfgs] : \A i, j \in 1..k : s[i].type = s[j].type => i = j} : k \in 0..n}

\* loaders with several types
PassConfigs == RdrsOf(TypeConfigs({"*attributes", "*resources"}, 0..MaxFiles), MaxTypes)

\* loaders with one single-file type, for every loader type
KindConfigs == RdrsOf(TypeConfigs(LoaderTypes, {1}), 1)

\* loaders with one type whose rows are spread over several files
RowConfigs == RdrsOf(TypeConfigs({"*attributes"}, {2, 3}), 1)

LoaderConfigs == PassConfigs \cup KindConfigs \cup RowConfigs

\* loaders with one single-file *attributes type: their file may hold longer runs of rows
RunConfigs == {<<c>> : c \in TypeConfigs({"*attributes"}, {1})}

\* the records the readers of a pass return before every Read is io.EOF
ReadLimit(rdrs) == IF rdrs \in RunConfigs THEN MaxRows ELSE MaxReads

\* lData := make(LoaderData)
EmptyRow == [parts |-> {}, key |-> ""]

\* ---- Loader: lockFolder, unlockFolder, moveFiles ----

\* os.OpenFile(lockfile, os.O_RDONLY|os.O_CREATE, 0644): creates the file, and
\* succeeds as well when it exists already (no O_EXCL)
lockFolder(dir) == dir \cup {LockFile}

\* os.Remove(lockfile): the lockfile is removed, or os.Remove fails and the
\* directory stays as it was
unlockFolder(dir, ok) == IF ok THEN dir \ {LockFile} ELSE dir

\* filesInDir, _ := ioutil.ReadDir(ldr.tpInDir): the entries sorted by
\* filename, or nil when the listing fails (the error is discarded)
ReadDir(dir, ok) == IF ok THEN SelectSeq(FileOrder, LAMBDA f : f \in dir) ELSE <<>>

\* the entries the loop of moveFiles calls os.Rename on: the lockfile is skipped
RenameEntries(listed) == SelectSeq(listed, LAMBDA f : f /= LockFile)

\* the files of tpInDir other than the lockfile
MovedFiles(dir) == {f \in dir : f /= LockFile}

\* ---- Loader: storeLoadedData / removeLoadedData ----

\* the dm.Set* calls of one profile, per case of storeLoadedData
SetMethods(t, partial) ==
    CASE t = "*attributes" -> <<"SetAttributeProfile">>
      [] t = "*resources" -> <<"SetResourceProfile", "SetResource">>
      [] t = "*filters" -> <<"SetFilter">>
      [] t = "*stats" -> <<"SetStatQueueProfile", "SetStatQueue">>
      [] t = "*thresholds" -> <<"SetThresholdProfile", "SetThreshold">>
      [] t = "*routes" -> <<"SetRouteProfile">>
      [] t = "*chargers" -> <<"SetChargerProfile">>
      [] t = "*dispatchers" -> <<"SetDispatcherProfile">>
      [] t = "*dispatcher_hosts" -> <<"SetDispatcherHost">>
      [] t = "*rate_profiles" -> IF partial THEN <<"SetRateProfileRates">> ELSE <<"SetRateProfile">>

\* the dm.Remove* calls of one tenant:ID, per case of removeLoadedData
RemoveMethods(t, partial) ==
    CASE t = "*attributes" -> <<"RemoveAttributeProfile">>
      [] t = "*resources" -> <<"RemoveResourceProfile", "RemoveResource">>
      [] t = "*filters" -> <<"RemoveFilter">>
      [] t = "*stats" -> <<"RemoveStatQueueProfile", "RemoveStatQueue">>
      [] t = "*thresholds" -> <<"RemoveThresholdProfile", "RemoveThreshold">>
      [] t = "*routes" -> <<"RemoveRouteProfile">>
      [] t = "*chargers" -> <<"RemoveChargerProfile">>
      [] t = "*dispatchers" -> <<"RemoveDispatcherProfile">>
      [] t = "*dispatcher_hosts" -> <<"RemoveDispatcherHost">>
      [] t = "*rate_profiles" -> IF partial THEN <<"RemoveRateProfileRates">> ELSE <<"RemoveRateProfile">>

\* mutant of DmMethods: the *stats cases do not test ldr.dryRun
DmMethodsStatsIgnoreDryRun(opt, t, partial, dry) ==
    IF dry /\ t /= "*stats" THEN <<>>
    ELSE IF opt = "*store" THEN SetMethods(t, partial) ELSE RemoveMethods(t, partial)

\* the Data Manager calls of one profile: every case tests ldr.dryRun first
DmMethods(opt, t, partial, dry) ==
    IF dry THEN <<>>
    ELSE IF opt = "*store" THEN SetMethods(t, partial) ELSE RemoveMethods(t, partial)

\* what happens inside one flush; each is taken only where it can occur
FlushOutcomes == {"ok", "convErr", "dmErr1", "dmErr2", "midErr", "cacheErr"}

\* profiles of the group: AsTP...() of no rows is empty; removeLoadedData
\* ranges over the keys of lds, and lds always has one key
Profiles(opt, rows) == IF opt = "*store" /\ rows = <<>> THEN 0 ELSE 1

\* the conversion before the dryRun test failed
\* (UpdateStructWithIfaceMap, APIto...; there is none in removeLoadedData)
ConvFails(opt, rows, o) == opt = "*store" /\ rows /= <<>> /\ o = "convErr"

\* ldData[0].GetRateIDs() of the *partial rate-profile removal indexes an empty group
RemovePanics(opt, t, partial, rows, dry) ==
    opt = "*remove" /\ t = "*rate_profiles" /\ partial /\ ~dry /\ rows = <<>>

\* the Data Manager calls issued by one flush, the failing one included
FlushDm(opt, t, partial, rows, dry, o) ==
    LET ms == DmMethods(opt, t, partial, dry) IN
    IF Profiles(opt, rows) = 0 \/ ConvFails(opt, rows, o) \/ ms = <<>> THEN <<>>
    ELSE IF RemovePanics(opt, t, partial, rows, dry) THEN <<>>
    ELSE IF o = "convErr" /\ opt = "*remove" /\ t = "*rate_profiles" /\ partial THEN <<>>
    ELSE IF o = "dmErr1" THEN <<ms[1]>>
    ELSE IF o = "midErr" /\ opt = "*store" /\ t = "*stats" THEN <<ms[1]>>
    ELSE ms

\* the error that ends the Data Manager part of one flush, NoErr if none:
\* a flush that panics returns no error
FlushDmErr(opt, t, partial, rows, dry, o) ==
    LET ms == DmMethods(opt, t, partial, dry) IN
    IF ConvFails(opt, rows, o) THEN ErrConvert
    ELSE IF Profiles(opt, rows) = 0 \/ ms = <<>> THEN NoErr
    ELSE IF RemovePanics(opt, t, partial, rows, dry) THEN NoErr
    ELSE IF o = "convErr" /\ opt = "*remove" /\ t = "*rate_profiles" /\ partial THEN ErrConvert
    ELSE IF o = "dmErr1" THEN ErrStorage
    ELSE IF o = "dmErr2" /\ Len(ms) = 2 THEN ErrStorage
    ELSE IF o = "midErr" /\ opt = "*store" /\ t = "*stats" THEN ErrConvert
    ELSE NoErr

\* len(ids) at the cache section of storeLoadedData; removeLoadedData ranges
\* over the keys of lds for *remove caching
CacheIDs(opt, rows, dry) ==
    IF opt = "*remove" THEN 1
    ELSE IF rows /= <<>> /\ ~dry THEN 1 ELSE 0

\* the CacheSv1 calls of the cache section: if len(ldr.cacheConns) != 0 { switch caching
CacheCalls(conns, caching, ids) ==
    IF conns = 0 THEN <<>>
    ELSE CASE caching = "*reload" -> <<"ReloadCache">>
           [] caching = "*load" -> <<"LoadCache">>
           [] caching = "*remove" -> [i \in 1..ids |-> "RemoveItem"]
           [] caching = "*clear" -> <<"Clear">>
           [] OTHER -> <<>>

\* one call of storeLoadedData or removeLoadedData
Flush(opt, t, partial, rows, dry, conns, caching, o) ==
    LET dmErr == FlushDmErr(opt, t, partial, rows, dry, o)
        cc == CacheCalls(conns, caching, CacheIDs(opt, rows, dry))
        cacheFails == o = "cacheErr" /\ cc /= <<>>
        panics == RemovePanics(opt, t, partial, rows, dry)
    IN  [dm |-> FlushDm(opt, t, partial, rows, dry, o),
         cache |-> IF dmErr /= NoErr \/ panics THEN <<>>
                   ELSE IF cacheFails THEN <<cc[1]>> ELSE cc,
         err |-> IF dmErr /= NoErr THEN dmErr
                 ELSE IF cacheFails /\ ~panics THEN ErrCache ELSE NoErr,
         panics |-> panics,
         readDry |-> opt = "*remove" \/ (rows /= <<>> /\ ~ConvFails(opt, rows, o)),
         readConns |-> dmErr = NoErr /\ ~panics,
         readCaching |-> dmErr = NoErr /\ ~panics /\ conns /= 0]

\* mutant of FlushCalls: the cache section runs before the Data Manager calls
FlushCallsCacheFirst(r) == r.cache \o r.dm

\* the calls of one flush in the order in which they are issued: the switch
\* over loaderType with its Data Manager calls, then the cache section
FlushCalls(r) == r.dm \o r.cache

\* mutant of CacheArgIDs: the tenant:IDs are never appended to ids
CacheArgIDsNone(opt, k, rows, dry) == {}

\* ids as the cache section finds them: the tenant:IDs appended before the
\* Data Manager calls of the flush (none in a dry run, none for an empty group
\* of storeLoadedData)
CacheArgIDs(opt, k, rows, dry) ==
    IF dry \/ (opt = "*store" /\ rows = <<>>) THEN {} ELSE {k}

\* one call of storeLoadedData / removeLoadedData as the pass made it: the key
\* and the rows of the group, where processContent called it (at a row with
\* another key, or after the row loop), its calls and its result
FlushRecord(opt, k, rows, dry, r, at) ==
    [key |-> k, rows |-> Len(rows), at |-> at, calls |-> FlushCalls(r),
     ids |-> CacheArgIDs(opt, k, rows, dry), err |-> r.err, panics |-> r.panics]

\* no request is being matched against the processors of the configuration
MatchIdle ==
    /\ mtCCR = NoCCR
    /\ mtIdx = 0
    /\ mtMatched = {}

\* no FileCSVee is exporting
ExportIdle ==
    /\ exMu = ""
    /\ exPc = [g \in Exporters |-> "idle"]
    /\ exRead = [g \in Exporters |-> 0]
    /\ exEv = [g \in Exporters |-> NoEvent]
    /\ exErr = [g \in Exporters |-> NoErr]
    /\ exCalls = MaxCalls
    /\ exOKIds = {}
    /\ exATimes = {}
    /\ exRows = <<>>
    /\ exFile = "open"
    /\ evPc = "done"
    /\ evTrailer = 0
    /\ dcNumberOfEvents = 0
    /\ dcFirstEventATime = 0
    /\ dcLastEventATime = 0
    /\ dcPositiveExports = {}
    /\ dcNegativeExports = {}

\* no folder pass is running
LoaderIdle ==
    /\ ldPc = "idle"
    /\ ldDir = DataFiles
    /\ ldOut = {}
    /\ ldLocked = FALSE
    /\ ldLoadOption = "*store"
    /\ ldRdrs = <<>>
    /\ ldTypeRes = <<>>
    /\ ldType = ""
    /\ ldPartial = FALSE
    /\ ldDryRun = BOOLEAN
    /\ ldCacheConns = ConnCounts
    /\ ldCaching = CachingOptions
    /\ ldNFiles = 0
    /\ ldOpened = {}
    /\ ldEOF = {}
    /\ ldReads = 0
    /\ ldVisited = {}
    /\ ldData = EmptyRow
    /\ ldHasErrors = FALSE
    /\ ldKeepLooping = FALSE
    /\ ldBuf = <<>>
    /\ ldDm = <<>>
    /\ ldCache = <<>>
    /\ ldDmTotal = 0
    /\ ldErr = NoErr
    /\ ldRet = NoErr
    /\ ldLog = <<>>
    /\ ldRowsIn = 0
    /\ ldListed = <<>>

\* the passes, each a ProcessFolder call of some Loader on the same tpInDir
Passes == {"p1", "p2"}

\* no pass was started
PassesIdle ==
    /\ psDir = DataFiles
    /\ psOut = {}
    /\ psPc = [p \in Passes |-> "idle"]
    /\ psTypes = [p \in Passes |-> 0]
    /\ psDone = [p \in Passes |-> 0]
    /\ psRet = [p \in Passes |-> NoErr]
    /\ psListed = [p \in Passes |-> <<>>]

InitRadius ==
    /\ pc = "idle"
    /\ handler = ""
    /\ nProcs \in 0..MaxProcs
    /\ idx = 0
    /\ flags = {}
    /\ matched = FALSE
    /\ reqType = ""
    /\ branches = <<>>
    /\ calls = <<>>
    /\ callErr = NoErr
    /\ radauthRes = <<>>
    /\ usage = "req"
    /\ cdrUsage = ""
    /\ radReqType = ""
    /\ replyTried = FALSE
    /\ cgrepError = ""
    /\ lclProcessed = FALSE
    /\ err = NoErr
    /\ processed = FALSE
    /\ rplyNM = {}
    /\ trace = <<>>
    /\ nCalls = 0
    /\ reply = "pending"
    /\ procId = ""
    /\ reqIn = NoRequest
    /\ reqOut = <<>>
    /\ maxUsage = ""
    /\ actUsage = ""
    /\ cdrErr = NoErr
    /\ repOut = <<>>

\* ListenAndServe not called
ListenIdle ==
    /\ errListen = NilChan
    /\ lsMain = "start"
    /\ lsAuth = ""
    /\ lsAcct = ""
    /\ lsAuthErr = NoErr
    /\ lsAcctErr = NoErr
    /\ lsRet = NoErr

Init == InitRadius /\ ListenIdle /\ LoaderIdle /\ PassesIdle /\ MatchIdle /\ ExportIdle

\* entry of one iteration of the range loop: a new AgentRequest over the shared maps
LoopEnter(h, i) ==
    /\ idx' = i
    /\ \E f \in FlagSets : \E p \in ProcessorsWith(f) :
         /\ flags' = f
         /\ procId' = p
         /\ reqIn' \in RequestsOf(p)
    /\ reqOut' = <<>>
    /\ actUsage' = ""
    /\ cdrErr' = NoErr
    /\ repOut' = <<>>
    /\ matched' = FALSE
    /\ reqType' = ""
    /\ branches' = <<>>
    /\ calls' = <<>>
    /\ callErr' = NoErr
    /\ radauthRes' = <<>>
    /\ usage' = "req"
    /\ cdrUsage' = ""
    /\ replyTried' = FALSE
    /\ radReqType' = SeedRadReqType(h, radReqType)
    /\ pc' = "filter"

\* the loop over no processors
LoopEmpty ==
    /\ pc' = "end"
    /\ UNCHANGED <<idx, flags, matched, reqType, branches, calls, callErr, radauthRes, usage, cdrUsage,
                   replyTried, radReqType>>
    /\ UNCHANGED <<procId, reqIn, reqOut, actUsage, cdrErr, repOut>>

\* handleAuth up to the first iteration of its loop
handleAuth ==
    /\ pc = "idle"
    /\ handler' = "auth"
    /\ IF nProcs = 0 THEN LoopEmpty ELSE LoopEnter("auth", 1)
    /\ UNCHANGED <<nProcs, cgrepError, lclProcessed, err, processed, rplyNM, trace,
                   nCalls, reply>>
    /\ UNCHANGED maxUsage
    /\ UNCHANGED notRadius

\* handleAcct up to the first iteration of its loop
handleAcct ==
    /\ pc = "idle"
    /\ handler' = "acct"
    /\ IF nProcs = 0 THEN LoopEmpty ELSE LoopEnter("acct", 1)
    /\ UNCHANGED <<nProcs, cgrepError, lclProcessed, err, processed, rplyNM, trace,
                   nCalls, reply>>
    /\ UNCHANGED maxUsage
    /\ UNCHANGED notRadius

\* processRequest: filterS.Pass
PassFilters ==
    /\ pc = "filter"
    /\ \E r \in PassResults :
         /\ matched' = (r[1] /\ r[2] = NoErr)
         /\ IF r[2] /= NoErr \/ ~r[1]
            THEN /\ lclProcessed' = r[1]
                 /\ err' = r[2]
                 /\ pc' = "ret"
            ELSE /\ pc' = "reqfields"
                 /\ UNCHANGED <<lclProcessed, err>>
    /\ UNCHANGED <<handler, nProcs, idx, flags, reqType, branches, calls, callErr, radauthRes, usage, cdrUsage,
                   radReqType, replyTried, cgrepError, processed, rplyNM, trace, nCalls,
                   reply>>
    /\ UNCHANGED tplVars
    /\ UNCHANGED notRadius

\* processRequest: SetFields(RequestFields), then the request type from the flags
SetRequestFields ==
    /\ pc = "reqfields"
    /\ \E ok \in BOOLEAN, setsType \in BOOLEAN :
         LET r == RequestFieldsResult(procId, reqIn, ok) IN
         /\ reqOut' = r.out
         /\ IF r.err /= NoErr
            THEN /\ lclProcessed' = FALSE
                 /\ err' = ErrRequestFields
                 /\ pc' = "ret"
                 /\ UNCHANGED <<reqType, radReqType>>
            ELSE /\ reqType' = IdentifyReqType(flags)
                 /\ radReqType' = IF setsType THEN "*fromRequestFields" ELSE radReqType
                 /\ pc' = "switch"
                 /\ UNCHANGED <<lclProcessed, err>>
    /\ UNCHANGED <<handler, nProcs, idx, flags, matched, branches, calls, callErr, radauthRes, usage, cdrUsage,
                   replyTried, cgrepError, processed, rplyNM, trace, nCalls, reply>>
    /\ UNCHANGED <<procId, reqIn, maxUsage, actUsage, cdrErr, repOut>>
    /\ UNCHANGED notRadius

\* processRequest: switch reqType
SwitchReqType ==
    /\ pc = "switch"
    /\ branches' = Append(branches, SwitchCase(reqType))
    /\ IF IsDefaultCase(reqType)
       THEN /\ lclProcessed' = FALSE
            /\ err' = ErrUnknownType
            /\ pc' = "ret"
            /\ UNCHANGED <<calls, callErr, radauthRes, usage, cgrepError, nCalls, maxUsage, actUsage>>
       ELSE IF IsRPCCase(reqType)
       THEN \E ce \in CallErrs, mu \in ReplyMaxUsage(reqType, flags) :
              /\ calls' = Append(calls, RPCMethod(reqType))
              /\ actUsage' = usage
              /\ maxUsage' = setCGRReplyMaxUsage(ce, mu)
              /\ nCalls' = nCalls + 1
              /\ callErr' = ce
              /\ radauthRes' = radauthRes
              /\ usage' = UsageAfter(reqType, flags, ce, usage)
              /\ cgrepError' = setCGRReplyError(ce)
              /\ IF ActionAborts(ce, setCGRReplyReturn(ce))
                 THEN /\ lclProcessed' = FALSE
                      /\ err' = IF setCGRReplyReturn(ce) /= NoErr
                                THEN setCGRReplyReturn(ce) ELSE ce
                      /\ pc' = "ret"
                 ELSE /\ pc' = "cdrs"
                      /\ UNCHANGED <<lclProcessed, err>>
       ELSE IF reqType = MetaRadauth
       THEN \E r \in RadauthResults :
              /\ radauthRes' = r
              /\ cgrepError' = RadauthCgrepError(r, cgrepError)
              /\ pc' = "cdrs"
              /\ UNCHANGED <<calls, callErr, usage, nCalls, lclProcessed, err, maxUsage, actUsage>>
       ELSE /\ pc' = "cdrs"
            /\ UNCHANGED <<calls, callErr, radauthRes, usage, cgrepError, nCalls, lclProcessed, err,
                           maxUsage, actUsage>>
    /\ UNCHANGED <<handler, nProcs, idx, flags, matched, reqType, cdrUsage, radReqType,
                   replyTried, processed, rplyNM, trace, reply>>
    /\ UNCHANGED <<procId, reqIn, reqOut, cdrErr, repOut>>
    /\ UNCHANGED notRadius

\* processRequest: the separate ProcessCDR request
ProcessCDRs ==
    /\ pc = "cdrs"
    /\ IF WantsCDRs(flags)
       THEN \E ce \in CallErrs :
              /\ calls' = Append(calls, "ProcessCDR")
              /\ nCalls' = nCalls + 1
              /\ cdrUsage' = usage
              /\ cdrErr' = ce
              /\ cgrepError' = CDRReplyError(ce, cgrepError)
       ELSE UNCHANGED <<calls, nCalls, cdrUsage, cgrepError, cdrErr>>
    /\ pc' = "replyfields"
    /\ UNCHANGED <<handler, nProcs, idx, flags, matched, reqType, branches, callErr, radauthRes, usage,
                   radReqType, replyTried, lclProcessed, err, processed, rplyNM, trace,
                   reply>>
    /\ UNCHANGED <<procId, reqIn, reqOut, maxUsage, actUsage, repOut>>
    /\ UNCHANGED notRadius

\* processRequest: SetFields(ReplyFields) and the final return
SetReplyFields ==
    /\ pc = "replyfields"
    /\ replyTried' = TRUE
    /\ \E ok \in BOOLEAN :
         LET r == ReplyFieldsResult(procId, cgrepError, maxUsage, ok) IN
         /\ repOut' = r.out
         /\ IF r.err = NoErr
            THEN /\ rplyNM' = rplyNM \cup {idx}
                 /\ lclProcessed' = TRUE
                 /\ err' = NoErr
            ELSE /\ lclProcessed' = FALSE
                 /\ err' = ErrReplyFields
                 /\ UNCHANGED rplyNM
    /\ pc' = "ret"
    /\ UNCHANGED <<handler, nProcs, idx, flags, matched, reqType, branches, calls, callErr, radauthRes, usage,
                   cdrUsage, radReqType, cgrepError, processed, trace, nCalls, reply>>
    /\ UNCHANGED <<procId, reqIn, reqOut, maxUsage, actUsage, cdrErr>>
    /\ UNCHANGED notRadius

\* the handler's loop body after processRequest returned
LoopNext ==
    /\ pc = "ret"
    /\ processed' = (IF lclProcessed THEN lclProcessed ELSE processed)
    /\ trace' = Append(trace, [matched |-> matched, processed |-> lclProcessed,
                               failed |-> (err /= NoErr),
                               cont |-> HasKey(flags, MetaContinue)])
    /\ IF BreakLoop(err, lclProcessed, flags) \/ idx = nProcs
       THEN /\ pc' = "end"
            /\ UNCHANGED <<idx, flags, matched, reqType, branches, calls, callErr, radauthRes, usage, cdrUsage,
                           replyTried, radReqType>>
            /\ UNCHANGED <<procId, reqIn, reqOut, actUsage, cdrErr, repOut>>
       ELSE LoopEnter(handler, idx + 1)
    /\ UNCHANGED <<handler, nProcs, cgrepError, lclProcessed, err, rplyNM, nCalls, reply>>
    /\ UNCHANGED maxUsage
    /\ UNCHANGED notRadius

\* the handler after the loop
HandlerReturn ==
    /\ pc = "end"
    /\ \E appendOK \in BOOLEAN : reply' = HandlerResult(err, processed, rplyNM, appendOK)
    /\ pc' = "done"
    /\ UNCHANGED <<handler, nProcs, idx, flags, matched, reqType, branches, calls, callErr, radauthRes, usage,
                   cdrUsage, radReqType, replyTried, cgrepError, lclProcessed, err,
                   processed, rplyNM, trace, nCalls>>
    /\ UNCHANGED tplVars
    /\ UNCHANGED notRadius

Next ==
    \/ handleAuth
    \/ handleAcct
    \/ PassFilters
    \/ SetRequestFields
    \/ SwitchReqType
    \/ ProcessCDRs
    \/ SetReplyFields
    \/ LoopNext
    \/ HandlerReturn

Spec == Init /\ [][Next]_vars

\* ---- RadiusAgent.ListenAndServe ----

\* a send on, or a receive from, a nil channel blocks forever
BlocksForever(ch) == ch = NilChan

InitListen ==
    /\ InitRadius
    /\ nProcs = 0
    /\ ListenIdle
    /\ LoaderIdle
    /\ PassesIdle
    /\ MatchIdle
    /\ ExportIdle

\* go func() { ... ra.rsAuth.ListenAndServe() ... }()
SpawnAuth ==
    /\ lsMain = "start"
    /\ lsMain' = "spawnedAuth"
    /\ lsAuth' = "listen"
    /\ UNCHANGED <<errListen, lsAcct, lsAuthErr, lsAcctErr, lsRet>>
    /\ UNCHANGED notListen

\* go func() { ... ra.rsAcct.ListenAndServe() ... }()
SpawnAcct ==
    /\ lsMain = "spawnedAuth"
    /\ lsMain' = "recv"
    /\ lsAcct' = "listen"
    /\ UNCHANGED <<errListen, lsAuth, lsAuthErr, lsAcctErr, lsRet>>
    /\ UNCHANGED notListen

\* if err := ra.rsAuth.ListenAndServe(); err != nil {
AuthListenReturns ==
    /\ lsAuth = "listen"
    /\ \E e \in ListenErrs \cup {NoErr} :
        /\ lsAuthErr' = e
        /\ lsAuth' = IF e /= NoErr THEN "send" ELSE "exit"
    /\ UNCHANGED <<errListen, lsMain, lsAcct, lsAcctErr, lsRet>>
    /\ UNCHANGED notListen

\* if err := ra.rsAcct.ListenAndServe(); err != nil {
AcctListenReturns ==
    /\ lsAcct = "listen"
    /\ \E e \in ListenErrs \cup {NoErr} :
        /\ lsAcctErr' = e
        /\ lsAcct' = IF e /= NoErr THEN "send" ELSE "exit"
    /\ UNCHANGED <<errListen, lsMain, lsAuth, lsAuthErr, lsRet>>
    /\ UNCHANGED notListen

\* errListen <- err (auth goroutine); the channel is unbuffered, so a send
\* completes together with the receive of ListenAndServe
AuthSend ==
    /\ lsAuth = "send"
    /\ IF BlocksForever(errListen)
       THEN /\ lsAuth' = "parked"
            /\ UNCHANGED <<lsMain, lsRet>>
       ELSE /\ lsMain = "recv"
            /\ lsAuth' = "exit"
            /\ lsRet' = lsAuthErr
            /\ lsMain' = "returned"
    /\ UNCHANGED <<errListen, lsAcct, lsAuthErr, lsAcctErr>>
    /\ UNCHANGED notListen

\* errListen <- err (acct goroutine)
AcctSend ==
    /\ lsAcct = "send"
    /\ IF BlocksForever(errListen)
       THEN /\ lsAcct' = "parked"
            /\ UNCHANGED <<lsMain, lsRet>>
       ELSE /\ lsMain = "recv"
            /\ lsAcct' = "exit"
            /\ lsRet' = lsAcctErr
            /\ lsMain' = "returned"
    /\ UNCHANGED <<errListen, lsAuth, lsAuthErr, lsAcctErr>>
    /\ UNCHANGED notListen

\* err = <-errListen, when no send can ever match it
MainRecv ==
    /\ lsMain = "recv"
    /\ BlocksForever(errListen)
    /\ lsMain' = "parked"
    /\ UNCHANGED <<errListen, lsAuth, lsAcct, lsAuthErr, lsAcctErr, lsRet>>
    /\ UNCHANGED notListen

NextListen ==
    \/ SpawnAuth
    \/ SpawnAcct
    \/ AuthListenReturns
    \/ AcctListenReturns
    \/ AuthSend
    \/ AcctSend
    \/ MainRecv

\* every runnable goroutine is eventually scheduled
SpecListen == InitListen /\ [][NextListen]_vars /\ WF_vars(NextListen)

\* ---- Loader: one folder pass ----

\* a Loader as NewLoader leaves it, and the arguments of ProcessFolder
InitLoader ==
    /\ ldPc = "idle"
    /\ ldDir \in {DataFiles, DataFiles \cup {LockFile}}
    /\ ldOut = {}
    /\ ldLocked = FALSE
    /\ ldLoadOption \in LoadOptions
    /\ ldRdrs \in LoaderConfigs
    /\ ldTypeRes = <<>>
    /\ ldType = ""
    /\ ldPartial = FALSE
    /\ ldDryRun = BOOLEAN
    /\ ldCacheConns = ConnCounts
    /\ ldCaching = CachingOptions
    /\ ldNFiles = 0
    /\ ldOpened = {}
    /\ ldEOF = {}
    /\ ldReads = 0
    /\ ldVisited = {}
    /\ ldData = EmptyRow
    /\ ldHasErrors = FALSE
    /\ ldKeepLooping = FALSE
    /\ ldBuf = <<>>
    /\ ldDm = <<>>
    /\ ldCache = <<>>
    /\ ldDmTotal = 0
    /\ ldErr = NoErr
    /\ ldRet = NoErr
    /\ ldLog = <<>>
    /\ ldRowsIn = 0
    /\ ldListed = <<>>

\* the keys of ldr.bufLoaderData (ldBuf is a sequence of <<key, rows>> entries)
BufKeys == {ldBuf[i][1] : i \in 1..Len(ldBuf)}

\* ldr.bufLoaderData[k]
BufRows(k) ==
    IF k \in BufKeys
    THEN (CHOOSE e \in {ldBuf[i] : i \in 1..Len(ldBuf)} : e[1] = k)[2]
    ELSE <<>>

\* for tntID = range ldr.bufLoaderData { break }: some key, "" when there is none
FirstKeys == IF ldBuf = <<>> THEN {""} ELSE BufKeys

\* mutant of BufDelete: the flushed key stays in the buffer
BufDeleteKeeps(k) == ldBuf

\* delete(ldr.bufLoaderData, k)
BufDelete(k) == SelectSeq(ldBuf, LAMBDA e : e[1] /= k)

\* mutant of BufAppend: the row replaces the rows buffered under its key
BufAppendOverwrites(b, k, row) ==
    IF \E i \in 1..Len(b) : b[i][1] = k
    THEN [i \in 1..Len(b) |-> IF b[i][1] = k THEN <<k, <<row>>>> ELSE b[i]]
    ELSE Append(b, <<k, <<row>>>>)

\* ldr.bufLoaderData[k] = append(ldr.bufLoaderData[k], row), on a buffer b
BufAppend(b, k, row) ==
    IF \E i \in 1..Len(b) : b[i][1] = k
    THEN [i \in 1..Len(b) |-> IF b[i][1] = k THEN <<k, Append(b[i][2], row)>> ELSE b[i]]
    ELSE Append(b, <<k, <<row>>>>)

\* a configuration value agrees with what the pass has read of it so far
Agrees(known, v) == v \in known

\* ProcessFolder: if err = ldr.lockFolder(); err != nil { return }; defer ldr.unlockFolder()
LockFolder ==
    /\ ldPc = "idle"
    /\ \E ok \in BOOLEAN :
        IF ok
        THEN /\ ldDir' = lockFolder(ldDir)
             /\ ldLocked' = TRUE
             /\ ldPc' = "types"
             /\ UNCHANGED ldRet
        ELSE /\ ldRet' = ErrLock
             /\ ldPc' = "done"
             /\ UNCHANGED <<ldDir, ldLocked>>
    /\ UNCHANGED <<ldOut, ldLoadOption, ldRdrs, ldTypeRes, ldType, ldPartial,
                   ldDryRun, ldCacheConns, ldCaching, ldNFiles, ldOpened, ldEOF, ldReads,
                   ldVisited, ldData, ldHasErrors, ldKeepLooping, ldBuf, ldDm, ldCache,
                   ldDmTotal, ldErr>>
    /\ UNCHANGED <<ldLog, ldRowsIn>>
    /\ UNCHANGED ldListed
    /\ UNCHANGED notLoader

\* for ldrType := range ldr.rdrs { ... processFiles(ldrType, ...) }; after the
\* last type: return ldr.moveFiles()
NextType ==
    /\ ldPc = "types"
    /\ IF Len(ldTypeRes) = Len(ldRdrs)
       THEN /\ ldPc' = "move"
            /\ UNCHANGED <<ldNFiles, ldType, ldPartial, ldEOF, ldLog, ldRowsIn>>
       ELSE /\ ldType' = ldRdrs[Len(ldTypeRes) + 1].type
            /\ ldPartial' = ldRdrs[Len(ldTypeRes) + 1].partial
            /\ ldNFiles' = ldRdrs[Len(ldTypeRes) + 1].files
            /\ ldEOF' = {}
            /\ ldLog' = <<>>
            /\ ldRowsIn' = 0
            /\ ldPc' = "files"
    /\ ldErr' = NoErr
    /\ UNCHANGED <<ldDir, ldOut, ldLocked, ldLoadOption, ldRdrs, ldTypeRes,
                   ldDryRun, ldCacheConns, ldCaching, ldOpened, ldReads,
                   ldVisited, ldData, ldHasErrors, ldKeepLooping, ldBuf, ldDm, ldCache,
                   ldDmTotal, ldRet>>
    /\ UNCHANGED ldListed
    /\ UNCHANGED notLoader

\* processFiles: for fName := range ldr.rdrs[loaderType] { os.Open ...;
\* switch loadOption { processContent / removeContent } }
OpenFile ==
    /\ ldPc = "files"
    /\ IF ldOpened = FilesOf(ldNFiles)
       THEN /\ ldPc' = "typeret"
            /\ ldErr' = NoErr
            /\ UNCHANGED <<ldOpened, ldVisited, ldData, ldHasErrors, ldKeepLooping>>
       ELSE \E f \in FilesOf(ldNFiles) \ ldOpened, ok \in BOOLEAN :
            IF ok
            THEN /\ ldOpened' = ldOpened \cup {f}
                 /\ ldKeepLooping' = TRUE
                 /\ ldVisited' = {}
                 /\ ldData' = EmptyRow
                 /\ ldHasErrors' = FALSE
                 /\ ldPc' = "row"
                 /\ UNCHANGED ldErr
            ELSE /\ ldErr' = ErrOpen
                 /\ ldPc' = "typeret"
                 /\ UNCHANGED <<ldOpened, ldVisited, ldData, ldHasErrors, ldKeepLooping>>
    /\ UNCHANGED <<ldDir, ldOut, ldLocked, ldLoadOption, ldRdrs, ldTypeRes,
                   ldType, ldPartial, ldDryRun, ldCacheConns, ldCaching, ldNFiles, ldEOF,
                   ldReads, ldBuf, ldDm, ldCache, ldDmTotal, ldRet>>
    /\ UNCHANGED <<ldLog, ldRowsIn>>
    /\ UNCHANGED ldListed
    /\ UNCHANGED notLoader

\* after the readers of one row: the next pc of the inner loop
AfterReader(visited) == IF visited = FilesOf(ldNFiles) THEN "rowend" ELSE "row"

\* processContent / removeContent: one iteration of
\* for fName, rdr := range ldr.rdrs[loaderType] { rdr.csvRdr.Read(); lData.UpdateFromCSV }
ReadRecord ==
    /\ ldPc = "row"
    /\ \E f \in FilesOf(ldNFiles) \ ldVisited :
        IF f \notin ldOpened
        THEN \* rdr is nil: rdr.csvRdr panics
             /\ ldPc' = "panic"
             /\ UNCHANGED <<ldEOF, ldReads, ldVisited, ldData, ldHasErrors, ldKeepLooping>>
        ELSE \E res \in {"EOF", "readErr", "okRow", "badRow"}, k \in TenantIDs :
             /\ (f \in ldEOF \/ ldReads = ReadLimit(ldRdrs)) => res = "EOF"
             /\ IF res = "EOF"
                THEN /\ ldKeepLooping' = FALSE
                     /\ ldEOF' = ldEOF \cup {f}
                     /\ ldPc' = "rowend"
                     /\ UNCHANGED <<ldReads, ldVisited, ldData, ldHasErrors>>
                ELSE /\ ldReads' = ldReads + 1
                     /\ ldVisited' = ldVisited \cup {f}
                     /\ ldHasErrors' = (ldHasErrors \/ res \in {"readErr", "badRow"})
                     /\ ldData' = IF ~ldHasErrors /\ res = "okRow"
                                  THEN [parts |-> ldData.parts \cup {f},
                                        key |-> IF ldData.parts = {} THEN k ELSE ldData.key]
                                  ELSE ldData
                     /\ ldPc' = AfterReader(ldVisited \cup {f})
                     /\ UNCHANGED <<ldEOF, ldKeepLooping>>
    /\ UNCHANGED <<ldDir, ldOut, ldLocked, ldLoadOption, ldRdrs, ldTypeRes,
                   ldType, ldPartial, ldDryRun, ldCacheConns, ldCaching, ldNFiles, ldOpened,
                   ldBuf, ldDm, ldCache, ldDmTotal, ldErr, ldRet>>
    /\ UNCHANGED <<ldLog, ldRowsIn>>
    /\ UNCHANGED ldListed
    /\ UNCHANGED notLoader

\* the row as it is buffered, with how its iteration of the row loop went
BufferedRow == [parts |-> ldData.parts, eof |-> ~ldKeepLooping, err |-> ldHasErrors]

\* the next pc of the row loop: for keepLooping { ... }
AfterRow == IF ldKeepLooping THEN "row" ELSE "final"

\* what one flush leaves of the configuration it read, and of its calls
FlushEffects(r, dry, conns, caching) ==
    /\ ldDryRun' = IF r.readDry THEN {dry} ELSE ldDryRun
    /\ ldCacheConns' = IF r.readConns THEN {conns} ELSE ldCacheConns
    /\ ldCaching' = IF r.readCaching THEN {caching} ELSE ldCaching
    /\ ldDm' = r.dm
    /\ ldCache' = r.cache
    /\ ldDmTotal' = ldDmTotal + Len(r.dm)

\* the flush inputs that agree with what the pass has read so far
FlushInputs ==
    {c \in BOOLEAN \X ConnCounts \X CachingOptions \X FlushOutcomes :
        /\ Agrees(ldDryRun, c[1])
        /\ Agrees(ldCacheConns, c[2])
        /\ Agrees(ldCaching, c[3])}

\* processContent / removeContent after the readers of one row:
\* if len(lData) == 0 { continue }; flush of the previous key; append to the buffer
BufferRow ==
    /\ ldPc = "rowend"
    /\ IF ldData.parts = {}
       THEN /\ ldPc' = AfterRow
            /\ UNCHANGED <<ldBuf, ldErr, ldDryRun, ldCacheConns, ldCaching, ldDm, ldCache,
                           ldDmTotal, ldLog, ldRowsIn>>
       ELSE IF ldData.key \notin BufKeys /\ Cardinality(BufKeys) = 1
       THEN \E prev \in BufKeys, c \in FlushInputs :
            LET r == Flush(ldLoadOption, ldType, ldPartial, BufRows(prev), c[1], c[2], c[3], c[4]) IN
            /\ FlushEffects(r, c[1], c[2], c[3])
            /\ ldLog' = Append(ldLog, FlushRecord(ldLoadOption, prev, BufRows(prev), c[1], r, "row"))
            /\ IF r.panics
               THEN /\ ldPc' = "panic"
                    /\ UNCHANGED <<ldBuf, ldErr, ldRowsIn>>
               ELSE IF r.err /= NoErr
               THEN /\ ldErr' = r.err
                    /\ ldPc' = "typeret"
                    /\ UNCHANGED <<ldBuf, ldRowsIn>>
               ELSE /\ ldBuf' = BufAppend(BufDelete(prev), ldData.key, BufferedRow)
                    /\ ldRowsIn' = ldRowsIn + 1
                    /\ ldPc' = AfterRow
                    /\ UNCHANGED ldErr
       ELSE /\ ldBuf' = BufAppend(ldBuf, ldData.key, BufferedRow)
            /\ ldRowsIn' = ldRowsIn + 1
            /\ ldPc' = AfterRow
            /\ UNCHANGED <<ldErr, ldDryRun, ldCacheConns, ldCaching, ldDm, ldCache, ldDmTotal,
                           ldLog>>
    /\ ldVisited' = {}
    /\ ldData' = EmptyRow
    /\ ldHasErrors' = FALSE
    /\ UNCHANGED <<ldDir, ldOut, ldLocked, ldLoadOption, ldRdrs, ldTypeRes, ldType,
                   ldPartial, ldNFiles, ldOpened, ldEOF, ldReads, ldKeepLooping, ldRet>>
    /\ UNCHANGED ldListed
    /\ UNCHANGED notLoader

\* processContent / removeContent after the row loop: flush of the first key
\* of the buffer, then delete(ldr.bufLoaderData, tntID)
FinalFlush ==
    /\ ldPc = "final"
    /\ \E k \in FirstKeys, c \in FlushInputs :
        LET r == Flush(ldLoadOption, ldType, ldPartial, BufRows(k), c[1], c[2], c[3], c[4]) IN
        /\ FlushEffects(r, c[1], c[2], c[3])
        /\ ldLog' = Append(ldLog, FlushRecord(ldLoadOption, k, BufRows(k), c[1], r, "eof"))
        /\ IF r.panics
           THEN /\ ldPc' = "panic"
                /\ UNCHANGED <<ldBuf, ldErr>>
           ELSE IF r.err /= NoErr
           THEN /\ ldErr' = r.err
                /\ ldPc' = "typeret"
                /\ UNCHANGED ldBuf
           ELSE /\ ldBuf' = BufDelete(k)
                /\ ldPc' = "files"
                /\ UNCHANGED ldErr
    /\ UNCHANGED <<ldDir, ldOut, ldLocked, ldLoadOption, ldRdrs, ldTypeRes, ldType,
                   ldPartial, ldNFiles, ldOpened, ldEOF, ldReads, ldVisited, ldData,
                   ldHasErrors, ldKeepLooping, ldRet>>
    /\ UNCHANGED ldRowsIn
    /\ UNCHANGED ldListed
    /\ UNCHANGED notLoader

\* if err = ldr.processFiles(...); err != nil { log; continue }: the loop goes
\* on with the next type whether the type failed or not
AfterType(e) == "types"

\* processFiles returns (its deferred unreferenceFile calls run) and
\* ProcessFolder logs the error, if any, and continues with the next type
TypeReturn ==
    /\ ldPc = "typeret"
    /\ ldOpened' = {}
    /\ ldTypeRes' = Append(ldTypeRes, ldErr)
    /\ ldPc' = AfterType(ldErr)
    /\ UNCHANGED <<ldDir, ldOut, ldLocked, ldLoadOption, ldRdrs, ldType, ldPartial,
                   ldDryRun, ldCacheConns, ldCaching, ldNFiles, ldEOF, ldReads,
                   ldVisited, ldData, ldHasErrors, ldKeepLooping, ldBuf, ldDm, ldCache,
                   ldDmTotal, ldErr, ldRet>>
    /\ UNCHANGED <<ldLog, ldRowsIn>>
    /\ UNCHANGED ldListed
    /\ UNCHANGED notLoader

\* mutant of FolderResult: the error of a type is returned when moveFiles succeeds
FolderResultKeepsTypeErr(typeErrs, moveErr) ==
    IF moveErr /= NoErr THEN moveErr
    ELSE IF \E i \in 1..Len(typeErrs) : typeErrs[i] /= NoErr
    THEN typeErrs[CHOOSE i \in 1..Len(typeErrs) : typeErrs[i] /= NoErr]
    ELSE NoErr

\* the error ProcessFolder returns after the loop over the types: that of
\* moveFiles, whatever processFiles returned for the types
FolderResult(typeErrs, moveErr) == moveErr

\* return ldr.moveFiles() and the deferred ldr.unlockFolder().
\* moveFiles: ioutil.ReadDir, then os.Rename of every listed file but the
\* lockfile, in order; the first k renames succeed, and the error of the
\* next one, if there is a next one, is returned.  The deferred unlockFolder
\* runs before ProcessFolder returns, and the error of its os.Remove is
\* dropped.
MoveFiles ==
    /\ ldPc = "move"
    /\ \E listed \in BOOLEAN, removed \in BOOLEAN :
        LET filesInDir == ReadDir(ldDir, listed)
            entries == RenameEntries(filesInDir) IN
        \E k \in 0..Len(entries) :
            LET renamed == {entries[i] : i \in 1..k} IN
            /\ ldListed' = filesInDir
            /\ ldOut' = ldOut \cup renamed
            /\ ldDir' = unlockFolder(ldDir \ renamed, removed)
            /\ ldRet' = FolderResult(ldTypeRes, IF k = Len(entries) THEN NoErr ELSE ErrRename)
    /\ ldPc' = "done"
    /\ UNCHANGED <<ldLocked, ldLoadOption, ldRdrs, ldTypeRes, ldType, ldPartial,
                   ldDryRun, ldCacheConns, ldCaching, ldNFiles, ldOpened, ldEOF, ldReads,
                   ldVisited, ldData, ldHasErrors, ldKeepLooping, ldBuf, ldDm, ldCache,
                   ldDmTotal, ldErr>>
    /\ UNCHANGED <<ldLog, ldRowsIn>>
    /\ UNCHANGED notLoader

\* a panic unwinds processFiles and ProcessFolder: the deferred unreferenceFile
\* and unlockFolder calls run, ProcessFolder does not return
Unwind ==
    /\ ldPc = "panic"
    /\ ldOpened' = {}
    /\ \E ok \in BOOLEAN : ldDir' = unlockFolder(ldDir, ok)
    /\ ldPc' = "crashed"
    /\ UNCHANGED <<ldOut, ldLocked, ldLoadOption, ldRdrs, ldTypeRes, ldType,
                   ldPartial, ldDryRun, ldCacheConns, ldCaching, ldNFiles, ldEOF,
                   ldReads, ldVisited, ldData, ldHasErrors, ldKeepLooping, ldBuf, ldDm,
                   ldCache, ldDmTotal, ldErr, ldRet>>
    /\ UNCHANGED <<ldLog, ldRowsIn>>
    /\ UNCHANGED ldListed
    /\ UNCHANGED notLoader

NextLoader ==
    \/ LockFolder
    \/ NextType
    \/ OpenFile
    \/ ReadRecord
    \/ BufferRow
    \/ FinalFlush
    \/ TypeReturn
    \/ MoveFiles
    \/ Unwind

\* one folder pass of one Loader
InitLdr ==
    /\ InitRadius
    /\ nProcs = 0
    /\ ListenIdle
    /\ InitLoader
    /\ PassesIdle
    /\ MatchIdle
    /\ ExportIdle

SpecLoader == InitLdr /\ [][NextLoader]_vars

\* ---- Loader: ProcessFolder passes running concurrently on one folder ----

\* the folder, and len(ldr.rdrs) of the loader of each pass
InitPassVars ==
    /\ psDir \in {DataFiles, DataFiles \cup {LockFile}}
    /\ psOut = {}
    /\ psPc = [p \in Passes |-> "idle"]
    /\ psTypes \in [Passes -> 0..MaxTypes]
    /\ psDone = [p \in Passes |-> 0]
    /\ psRet = [p \in Passes |-> NoErr]
    /\ psListed = [p \in Passes |-> <<>>]

\* if err = ldr.lockFolder(); err != nil { return }; defer ldr.unlockFolder()
PassLockFolder(p) ==
    /\ psPc[p] = "idle"
    /\ \E ok \in BOOLEAN :
        IF ok
        THEN /\ psDir' = lockFolder(psDir)
             /\ psPc' = [psPc EXCEPT ![p] = "types"]
             /\ UNCHANGED psRet
        ELSE /\ psRet' = [psRet EXCEPT ![p] = ErrLock]
             /\ psPc' = [psPc EXCEPT ![p] = "done"]
             /\ UNCHANGED psDir
    /\ UNCHANGED <<psOut, psTypes, psDone, psListed>>
    /\ UNCHANGED notPasses

\* one iteration of for ldrType := range ldr.rdrs: processFiles, whose error
\* is logged and dropped
PassProcessFiles(p) ==
    /\ psPc[p] = "types"
    /\ psDone[p] < psTypes[p]
    /\ psDone' = [psDone EXCEPT ![p] = @ + 1]
    /\ UNCHANGED <<psDir, psOut, psPc, psTypes, psRet, psListed>>
    /\ UNCHANGED notPasses

\* moveFiles: filesInDir, _ := ioutil.ReadDir(ldr.tpInDir)
PassReadDir(p) ==
    /\ psPc[p] = "types"
    /\ psDone[p] = psTypes[p]
    /\ \E ok \in BOOLEAN :
          psListed' = [psListed EXCEPT ![p] = ReadDir(psDir, ok)]
    /\ psPc' = [psPc EXCEPT ![p] = "rename"]
    /\ UNCHANGED <<psDir, psOut, psTypes, psDone, psRet>>
    /\ UNCHANGED notPasses

\* moveFiles: one iteration of for _, file := range filesInDir: the lockfile
\* is skipped; os.Rename fails when the file is no longer in tpInDir, and
\* may fail when it is; its error is returned at once
PassMoveFiles(p) ==
    /\ psPc[p] = "rename"
    /\ psListed[p] /= <<>>
    /\ LET f == Head(psListed[p]) IN
       IF f = LockFile
       THEN /\ psListed' = [psListed EXCEPT ![p] = Tail(@)]
            /\ UNCHANGED <<psDir, psOut, psPc, psRet>>
       ELSE \E ok \in BOOLEAN :
            IF ok /\ f \in psDir
            THEN /\ psOut' = psOut \cup {f}
                 /\ psDir' = psDir \ {f}
                 /\ psListed' = [psListed EXCEPT ![p] = Tail(@)]
                 /\ UNCHANGED <<psPc, psRet>>
            ELSE /\ psRet' = [psRet EXCEPT ![p] = ErrRename]
                 /\ psListed' = [psListed EXCEPT ![p] = <<>>]
                 /\ psPc' = [psPc EXCEPT ![p] = "unlock"]
                 /\ UNCHANGED <<psDir, psOut>>
    /\ UNCHANGED <<psTypes, psDone>>
    /\ UNCHANGED notPasses

\* moveFiles: the loop ran over every listed file, return nil
PassMoveReturn(p) ==
    /\ psPc[p] = "rename"
    /\ psListed[p] = <<>>
    /\ psRet' = [psRet EXCEPT ![p] = NoErr]
    /\ psPc' = [psPc EXCEPT ![p] = "unlock"]
    /\ UNCHANGED <<psDir, psOut, psTypes, psDone, psListed>>
    /\ UNCHANGED notPasses

\* the deferred ldr.unlockFolder(): os.Remove, which fails when the lockfile
\* is gone already and may fail when it is there; its error is dropped
PassUnlockFolder(p) ==
    /\ psPc[p] = "unlock"
    /\ \E ok \in BOOLEAN : psDir' = unlockFolder(psDir, ok)
    /\ psPc' = [psPc EXCEPT ![p] = "done"]
    /\ UNCHANGED <<psOut, psTypes, psDone, psRet, psListed>>
    /\ UNCHANGED notPasses

NextPasses ==
    \E p \in Passes :
        \/ PassLockFolder(p)
        \/ PassProcessFiles(p)
        \/ PassReadDir(p)
        \/ PassMoveFiles(p)
        \/ PassMoveReturn(p)
        \/ PassUnlockFolder(p)

InitPasses ==
    /\ InitRadius
    /\ nProcs = 0
    /\ ListenIdle
    /\ LoaderIdle
    /\ InitPassVars
    /\ MatchIdle
    /\ ExportIdle

SpecPasses == InitPasses /\ [][NextPasses]_vars

\* ---- the filters of the configured processors against one request ----

\* a request arrives
InitMatchVars ==
    /\ mtCCR \in CCRs
    /\ mtIdx = 0
    /\ mtMatched = {}

\* the filters of the next processor of the list are evaluated
MatchProcessor ==
    /\ mtIdx < Len(ProcessorOrder)
    /\ mtIdx' = mtIdx + 1
    /\ mtMatched' = IF Matches(ProcessorOrder[mtIdx + 1], mtCCR)
                    THEN mtMatched \cup {ProcessorOrder[mtIdx + 1]}
                    ELSE mtMatched
    /\ UNCHANGED mtCCR
    /\ UNCHANGED notMatch

NextMatch == MatchProcessor

InitMatch ==
    /\ InitRadius
    /\ nProcs = 0
    /\ ListenIdle
    /\ LoaderIdle
    /\ PassesIdle
    /\ InitMatchVars
    /\ ExportIdle

SpecMatch == InitMatch /\ [][NextMatch]_vars

\* ---- FileCSVee (ees): ExportEvent and OnEvicted on one exporter ----
\* Goroutines call ExportEvent on the same FileCSVee while the cache may
\* evict it (OnEvicted).  ExportEvent runs under fCsv.Lock(); OnEvicted,
\* composeTrailer, csvWriter.Flush and file.Close take no lock.  The results
\* of SetFields, of FieldAsString and of csvWriter.Write are inputs.  The
\* order-id, cost and usage counters of dc are left out: they are updated
\* in the same critical section and read by no branch.

\* fCsv.Lock() returns only when no goroutine holds the mutex
LockFree(mu) == mu = ""

\* dc[FirstEventATime] after an event with AnswerTime aTime:
\* replaced when it is zero or Before(aTime)
FirstEventATimeAfter(first, aTime) ==
    IF first = 0 \/ first < aTime THEN aTime ELSE first

\* dc[LastEventATime] after an event with AnswerTime aTime:
\* replaced when aTime.After(it)
LastEventATimeAfter(last, aTime) ==
    IF aTime > last THEN aTime ELSE last

\* the rows of the csv writer after csvWriter.Write of a row: the header, the
\* row of event id, or the trailer
RowsAfterWrite(rows, kind, id, res) ==
    CASE res = "ok" -> Append(rows, [kind |-> kind, id |-> id, whole |-> TRUE])
      [] res = "partial" -> Append(rows, [kind |-> kind, id |-> id, whole |-> FALSE])
      [] OTHER -> rows

\* a goroutine calls ExportEvent(cgrEv)
ExportEventCall(g) ==
    /\ exPc[g] = "idle"
    /\ exCalls < MaxCalls
    /\ \E t \in AnswerTimes :
          exEv' = [exEv EXCEPT ![g] = [id |-> exCalls + 1, aTime |-> t]]
    /\ exCalls' = exCalls + 1
    /\ exErr' = [exErr EXCEPT ![g] = NoErr]
    /\ exPc' = [exPc EXCEPT ![g] = "lock"]
    /\ UNCHANGED <<exMu, exRead, exOKIds, exATimes, exRows, exFile, evPc, evTrailer>>
    /\ UNCHANGED <<dcNumberOfEvents, dcFirstEventATime, dcLastEventATime, dcPositiveExports, dcNegativeExports>>
    /\ UNCHANGED notExport

\* fCsv.Lock()
ExportEventLock(g) ==
    /\ exPc[g] = "lock"
    /\ LockFree(exMu)
    /\ exMu' = g
    /\ exPc' = [exPc EXCEPT ![g] = "count"]
    /\ UNCHANGED <<exRead, exEv, exErr, exCalls, exOKIds, exATimes, exRows, exFile, evPc, evTrailer>>
    /\ UNCHANGED <<dcNumberOfEvents, dcFirstEventATime, dcLastEventATime, dcPositiveExports, dcNegativeExports>>
    /\ UNCHANGED notExport

\* the read of fCsv.dc[NumberOfEvents].(int) + 1
ExportEventCount(g) ==
    /\ exPc[g] = "count"
    /\ exRead' = [exRead EXCEPT ![g] = dcNumberOfEvents]
    /\ exPc' = [exPc EXCEPT ![g] = "store"]
    /\ UNCHANGED <<exMu, exEv, exErr, exCalls, exOKIds, exATimes, exRows, exFile, evPc, evTrailer>>
    /\ UNCHANGED <<dcNumberOfEvents, dcFirstEventATime, dcLastEventATime, dcPositiveExports, dcNegativeExports>>
    /\ UNCHANGED notExport

\* the store of fCsv.dc[NumberOfEvents] = ...
ExportEventStore(g) ==
    /\ exPc[g] = "store"
    /\ dcNumberOfEvents' = exRead[g] + 1
    /\ exPc' = [exPc EXCEPT ![g] = "fields"]
    /\ UNCHANGED <<exMu, exRead, exEv, exErr, exCalls, exOKIds, exATimes, exRows, exFile, evPc, evTrailer>>
    /\ UNCHANGED <<dcFirstEventATime, dcLastEventATime, dcPositiveExports, dcNegativeExports>>
    /\ UNCHANGED notExport

\* eeReq.SetFields(ContentFields()) and the FieldAsString of every field:
\* a SetFields error adds the event to NegativeExports and returns, a
\* FieldAsString error returns
ExportEventFields(g) ==
    /\ exPc[g] = "fields"
    /\ \E e \in {NoErr, ErrSetFields, ErrFieldAsString} :
          /\ exErr' = [exErr EXCEPT ![g] = e]
          /\ dcNegativeExports' =
                IF e = ErrSetFields THEN dcNegativeExports \cup {exEv[g].id}
                ELSE dcNegativeExports
          /\ exPc' = [exPc EXCEPT ![g] = IF e = NoErr THEN "atime" ELSE "unlock"]
    /\ UNCHANGED <<exMu, exRead, exEv, exCalls, exOKIds, exATimes, exRows, exFile, evPc, evTrailer>>
    /\ UNCHANGED <<dcNumberOfEvents, dcFirstEventATime, dcLastEventATime, dcPositiveExports>>
    /\ UNCHANGED notExport

\* the AnswerTime block: skipped when FieldAsTime(AnswerTime) fails
ExportEventAnswerTime(g) ==
    /\ exPc[g] = "atime"
    /\ IF exEv[g].aTime /= 0
       THEN /\ dcFirstEventATime' = FirstEventATimeAfter(dcFirstEventATime, exEv[g].aTime)
            /\ dcLastEventATime' = LastEventATimeAfter(dcLastEventATime, exEv[g].aTime)
            /\ exATimes' = exATimes \cup {exEv[g].aTime}
       ELSE UNCHANGED <<dcFirstEventATime, dcLastEventATime, exATimes>>
    /\ exPc' = [exPc EXCEPT ![g] = "write"]
    /\ UNCHANGED <<exMu, exRead, exEv, exErr, exCalls, exOKIds, exRows, exFile, evPc, evTrailer>>
    /\ UNCHANGED <<dcNumberOfEvents, dcPositiveExports, dcNegativeExports>>
    /\ UNCHANGED notExport

\* PositiveExports.Add(cgrEv.ID); fCsv.csvWriter.Write(csvRecord); return:
\* the error of Write is not assigned to err
ExportEventWrite(g) ==
    /\ exPc[g] = "write"
    /\ dcPositiveExports' = dcPositiveExports \cup {exEv[g].id}
    /\ \E res \in WriteResults :
          exRows' = RowsAfterWrite(exRows, "event", exEv[g].id, res)
    /\ exPc' = [exPc EXCEPT ![g] = "unlock"]
    /\ UNCHANGED <<exMu, exRead, exEv, exErr, exCalls, exOKIds, exATimes, exFile, evPc, evTrailer>>
    /\ UNCHANGED <<dcNumberOfEvents, dcFirstEventATime, dcLastEventATime, dcNegativeExports>>
    /\ UNCHANGED notExport

\* the deferred fCsv.Unlock() and the return of err: the locals of the call
\* are gone
ExportEventReturn(g) ==
    /\ exPc[g] = "unlock"
    /\ exMu' = IF exMu = g THEN "" ELSE exMu
    /\ exOKIds' = IF exErr[g] = NoErr THEN exOKIds \cup {exEv[g].id} ELSE exOKIds
    /\ exRead' = [exRead EXCEPT ![g] = 0]
    /\ exEv' = [exEv EXCEPT ![g] = NoEvent]
    /\ exErr' = [exErr EXCEPT ![g] = NoErr]
    /\ exPc' = [exPc EXCEPT ![g] = "idle"]
    /\ UNCHANGED <<exCalls, exATimes, exRows, exFile, evPc, evTrailer>>
    /\ UNCHANGED <<dcNumberOfEvents, dcFirstEventATime, dcLastEventATime, dcPositiveExports, dcNegativeExports>>
    /\ UNCHANGED notExport

\* OnEvicted, composeTrailer up to SetFields(TrailerFields()): the trailer
\* fields read dc
OnEvictedSetFields ==
    /\ evPc = "idle"
    /\ evTrailer' = dcNumberOfEvents
    /\ evPc' = "trailer"
    /\ UNCHANGED <<exMu, exPc, exRead, exEv, exErr, exCalls, exOKIds, exATimes, exRows, exFile>>
    /\ UNCHANGED <<dcNumberOfEvents, dcFirstEventATime, dcLastEventATime, dcPositiveExports, dcNegativeExports>>
    /\ UNCHANGED notExport

\* composeTrailer: return fCsv.csvWriter.Write(csvRecord), or an earlier
\* return when there are no trailer fields or one of them fails; OnEvicted
\* logs the error and goes on
OnEvictedWriteTrailer ==
    /\ evPc = "trailer"
    /\ \E written \in BOOLEAN, res \in WriteResults :
          exRows' = IF written THEN RowsAfterWrite(exRows, "trailer", 0, res) ELSE exRows
    /\ evPc' = "flush"
    /\ UNCHANGED <<exMu, exPc, exRead, exEv, exErr, exCalls, exOKIds, exATimes, exFile, evTrailer>>
    /\ UNCHANGED <<dcNumberOfEvents, dcFirstEventATime, dcLastEventATime, dcPositiveExports, dcNegativeExports>>
    /\ UNCHANGED notExport

\* fCsv.csvWriter.Flush()
OnEvictedFlush ==
    /\ evPc = "flush"
    /\ evPc' = "close"
    /\ UNCHANGED <<exMu, exPc, exRead, exEv, exErr, exCalls, exOKIds, exATimes, exRows, exFile, evTrailer>>
    /\ UNCHANGED <<dcNumberOfEvents, dcFirstEventATime, dcLastEventATime, dcPositiveExports, dcNegativeExports>>
    /\ UNCHANGED notExport

\* fCsv.file.Close(): its error is logged
OnEvictedClose ==
    /\ evPc = "close"
    /\ exFile' = "closed"
    /\ evPc' = "done"
    /\ UNCHANGED <<exMu, exPc, exRead, exEv, exErr, exCalls, exOKIds, exATimes, exRows, evTrailer>>
    /\ UNCHANGED <<dcNumberOfEvents, dcFirstEventATime, dcLastEventATime, dcPositiveExports, dcNegativeExports>>
    /\ UNCHANGED notExport

\* NewFileCSVee returned without error: the file is open, dc holds the zero
\* counters, and init ended with composeHeader, which wrote the header row
\* unless the exporter has no header fields
InitExportVars ==
    /\ exMu = ""
    /\ exPc = [g \in Exporters |-> "idle"]
    /\ exRead = [g \in Exporters |-> 0]
    /\ exEv = [g \in Exporters |-> NoEvent]
    /\ exErr = [g \in Exporters |-> NoErr]
    /\ exCalls = 0
    /\ exOKIds = {}
    /\ exATimes = {}
    /\ exRows \in {<<>>, RowsAfterWrite(<<>>, "header", 0, "ok")}
    /\ exFile = "open"
    /\ evPc = "idle"
    /\ evTrailer = 0
    /\ dcNumberOfEvents = 0
    /\ dcFirstEventATime = 0
    /\ dcLastEventATime = 0
    /\ dcPositiveExports = {}
    /\ dcNegativeExports = {}

InitExport ==
    /\ InitRadius
    /\ nProcs = 0
    /\ ListenIdle
    /\ LoaderIdle
    /\ PassesIdle
    /\ MatchIdle
    /\ InitExportVars

NextExport ==
    \/ \E g \in Exporters : ExportEventCall(g)
    \/ \E g \in Exporters : ExportEventLock(g)
    \/ \E g \in Exporters : ExportEventCount(g)
    \/ \E g \in Exporters : ExportEventStore(g)
    \/ \E g \in Exporters : ExportEventFields(g)
    \/ \E g \in Exporters : ExportEventAnswerTime(g)
    \/ \E g \in Exporters : ExportEventWrite(g)
    \/ \E g \in Exporters : ExportEventReturn(g)
    \/ OnEvictedSetFields
    \/ OnEvictedWriteTrailer
    \/ OnEvictedFlush
    \/ OnEvictedClose

SpecExport == InitExport /\ [][NextExport]_vars

\* ---- properties of the request-processor loop ----

\* the current processor is inside processRequest or has just returned from it
InProcessor == pc \in {"filter", "reqfields", "switch", "cdrs", "replyfields", "ret"}

\* the loop is over
LoopOver == pc \in {"end", "done"}

\* finished iterations that were followed by the evaluation of another processor
Followed == {i \in 1..Len(trace) : i < Len(trace) \/ InProcessor}

SessionActionMethods == {"AuthorizeEvent", "InitiateSession", "UpdateSession",
                         "TerminateSession", "ProcessMessage", "ProcessEvent"}

ActionCallCount(cs) == Cardinality({i \in 1..Len(cs) : cs[i] \in SessionActionMethods})

CDRCallCount(cs) == Cardinality({i \in 1..Len(cs) : cs[i] = "ProcessCDR"})

\* C1: processors are tried in configured order; a processor that processed the
\* packet without *continue is never followed by the evaluation of another one, and
\* two matching processors both execute only when the earlier one has *continue.
C1_FirstMatchWinsUnlessContinue ==
    /\ InProcessor => idx = Len(trace) + 1
    /\ LoopOver => idx = Len(trace)
    /\ \A i \in Followed : trace[i].processed => trace[i].cont
    /\ \A i \in Followed : trace[i].matched => (trace[i].processed /\ trace[i].cont)

C1_Witness ==
    /\ pc = "done"
    /\ nProcs = 2
    /\ Len(trace) = 1
    /\ trace[1].processed
    /\ ~trace[1].cont

\* C2 (as claimed): every processor whose filters match invokes exactly one action
\* RPC, plus optionally one ProcessCDR, whatever its flags.
C2_ExactlyOneActionRPC ==
    (pc = "ret" /\ matched) =>
        (ActionCallCount(calls) = 1 /\ CDRCallCount(calls) <= 1)

\* C2 (amended): a processor whose filters match invokes at most one action RPC:
\* exactly one when its request-fields evaluated and its request type is one of
\* *authorize, *initiate, *update, *terminate, *message, *event, and none otherwise
\* (*dryrun, *none, *cdrs, *radauth, no action flag, failed request-fields); plus at
\* most one ProcessCDR, issued only when *cdrs is flagged.
C2_OneActionRPCForSessionTypes ==
    (pc = "ret" /\ matched) =>
        /\ ActionCallCount(calls) =
             (IF reqType \in {"*authorize", "*initiate", "*update", "*terminate",
                              "*message", "*event"} THEN 1 ELSE 0)
        /\ CDRCallCount(calls) <= 1
        /\ (CDRCallCount(calls) = 1 => "*cdrs" \in flags)

C2_Witness ==
    /\ pc = "ret"
    /\ matched
    /\ ActionCallCount(calls) = 1
    /\ CDRCallCount(calls) = 1

\* C3 (as claimed): one packet emits at most one session RPC over all processors,
\* except for the ProcessCDR that follows the action of one *cdrs processor.
C3_AtMostOneRPCPerPacket ==
    pc = "done" =>
        \/ nCalls <= 1
        \/ /\ nCalls = 2
           /\ Len(calls) = 2
           /\ calls[1] /= "ProcessCDR"
           /\ calls[2] = "ProcessCDR"

\* C3 (amended): each processor execution emits at most one action RPC, followed by
\* at most one ProcessCDR when *cdrs is flagged; a packet carries calls of more than
\* one processor only behind a processor that processed it with *continue, so the
\* total is bounded by two calls per executed processor.
C3_AtMostOneRPCPerProcessor ==
    /\ Len(calls) <= 2
    /\ ActionCallCount(calls) <= 1
    /\ CDRCallCount(calls) <= 1
    /\ (Len(calls) = 2 => (calls[2] = "ProcessCDR" /\ "*cdrs" \in flags))
    /\ nCalls <= 2 * idx
    /\ (nCalls > Len(calls) =>
          \E i \in 1..Len(trace) : i < idx /\ trace[i].processed /\ trace[i].cont)

C3_Witness ==
    /\ pc = "done"
    /\ Len(trace) = 2
    /\ nCalls = 3
    /\ calls = <<"TerminateSession", "ProcessCDR">>

\* C4 (as claimed): when *cdrs is flagged together with *authorize, *initiate,
\* *update, *terminate, *message or *event, the RPC of that flag is issued first and
\* ProcessCDR, carrying the current event, after it.
C4_PrimaryActionThenCDR ==
    (pc = "replyfields" /\ "*cdrs" \in flags) =>
        \A f \in flags \cap {"*authorize", "*initiate", "*update", "*terminate",
                             "*message", "*event"} :
            /\ calls = <<RPCMethod(f), "ProcessCDR">>
            /\ cdrUsage = usage

\* C5: when the filters of every configured processor fail, the handler returns no
\* reply packet.
C5_NoMatchNoReply ==
    (pc = "done" /\ \A i \in 1..Len(trace) : ~trace[i].matched) => reply = "none"

C5_Witness ==
    /\ pc = "done"
    /\ nProcs = 2
    /\ Len(trace) = 2
    /\ \A i \in 1..2 : ~trace[i].matched /\ ~trace[i].failed
    /\ reply = "none"

\* C6: a processor execution that returns an error ends the loop, so no later
\* processor is run, and the handler returns no reply packet.
C6_ErrorStopsAndDrops ==
    /\ \A i \in 1..Len(trace) : trace[i].failed => (i = Len(trace) /\ LoopOver)
    /\ (pc = "done" /\ \E i \in 1..Len(trace) : trace[i].failed) => reply = "none"

C6_Witness ==
    /\ pc = "done"
    /\ nProcs = 2
    /\ Len(trace) = 1
    /\ trace[1].failed
    /\ reply = "none"

\* C7 (as claimed): when an earlier *continue processor already wrote its
\* reply-fields into *rep and a later processor errors, the accumulated *rep is
\* still returned as the reply.
C7_AccumulatedRepReturnedOnError ==
    (pc = "done" /\ err /= NoErr /\ rplyNM /= {}) => reply = "packet"

\* C7 (amended): an error raised during a processor drops the packet without reply
\* in every case, also when an earlier *continue processor already wrote its
\* reply-fields into *rep: the accumulated *rep is discarded.
C7_ErrorDropsAccumulatedRep ==
    (pc = "done" /\ err /= NoErr /\ rplyNM /= {}) => reply = "none"

C7_Witness ==
    /\ pc = "done"
    /\ Len(trace) = 2
    /\ trace[1].processed
    /\ trace[1].cont
    /\ trace[2].failed
    /\ 1 \in rplyNM
    /\ reply = "none"

\* the fixed precedence of the action kinds
C8_Precedence == <<"*dryrun", "*authorize", "*initiate", "*update", "*terminate",
                   "*message", "*cdrs", "*event", "*none", "*radauth">>

\* C8: the case of the switch a processor enters is the first flag of the precedence
\* list that is in its flag set (default when none is), and one case is entered per
\* execution that reaches the switch.
C8_FirstFlagByPrecedenceWins ==
    /\ pc \in {"switch", "cdrs", "replyfields"} =>
         /\ \A i \in 1..Len(C8_Precedence) :
              (C8_Precedence[i] \in flags /\ \A j \in 1..(i - 1) : C8_Precedence[j] \notin flags)
                  => reqType = C8_Precedence[i]
         /\ (\A i \in 1..Len(C8_Precedence) : C8_Precedence[i] \notin flags) => reqType = ""
    /\ pc \in {"cdrs", "replyfields"} => branches = <<reqType>>
    /\ Len(branches) <= 1
    /\ (branches /= <<>> /\ branches[1] /= "default") =>
         /\ branches[1] \in flags
         /\ \A i, j \in 1..Len(C8_Precedence) :
              (C8_Precedence[i] = branches[1] /\ j < i) => C8_Precedence[j] \notin flags

C8_Witness ==
    /\ pc = "replyfields"
    /\ flags = {"*event", "*cdrs"}
    /\ branches = <<"*cdrs">>

\* C9: a processor whose filters match and whose flags hold no action kind returns
\* (false, error) - unknown request type once its request-fields evaluated - without
\* any RPC and without evaluating reply-fields, and the packet gets no reply.
C9_NoActionFlagIsError ==
    (matched /\ flags \cap ActionFlags = {} /\ pc \in {"ret", "end", "done"}) =>
        /\ ~lclProcessed
        /\ err /= NoErr
        /\ (branches /= <<>> => (branches = <<"default">> /\ err = ErrUnknownType))
        /\ calls = <<>>
        /\ ~replyTried
        /\ idx \notin rplyNM
        /\ (pc = "done" => reply = "none")

C9_Witness ==
    /\ pc = "done"
    /\ matched
    /\ flags = {"*continue"}
    /\ err = ErrUnknownType
    /\ reply = "none"

\* C10: when the action RPC of a processor fails, that method is called once, the
\* failure is in *cgrep.Error, the reply-fields are still evaluated, and - when they
\* evaluate - the processor counts as processed and the handler does not drop the
\* packet.
C10_FailedCallStillReplies ==
    callErr /= NoErr =>
        /\ Cardinality({i \in 1..Len(calls) : calls[i] = RPCMethod(reqType)}) = 1
        /\ ActionCallCount(calls) = 1
        /\ cgrepError /= ""
        /\ pc \in {"ret", "end", "done"} => replyTried
        /\ (pc \in {"ret", "end", "done"} /\ err = NoErr) => (lclProcessed /\ idx \in rplyNM)
        /\ (pc \in {"end", "done"} /\ err = NoErr) => processed
        /\ (pc = "done" /\ err = NoErr) => reply /= "none"

C10_Witness ==
    /\ pc = "done"
    /\ callErr = ErrRPC
    /\ calls = <<"AuthorizeEvent">>
    /\ cgrepError = ErrRPC
    /\ reply = "packet"

\* C11: in a *radauth processor a failed verification sets *cgrep.Error to
\* RADAUTH_FAILED and a verification error sets it to the error text; processing
\* goes on: reply-fields are evaluated, and when they evaluate the processor returns
\* processed=true and the handler does not drop the packet.
C11_RadauthFailureStillReplies ==
    (radauthRes /= <<>> /\ ~radauthRes[1]) =>
        /\ branches = <<"*radauth">>
        /\ (radauthRes[2] = NoErr => cgrepError = "RADAUTH_FAILED")
        /\ (radauthRes[2] /= NoErr => cgrepError = radauthRes[2])
        /\ calls = <<>>
        /\ pc \in {"cdrs", "replyfields", "ret", "end", "done"}
        /\ pc \in {"ret", "end", "done"} => replyTried
        /\ (pc \in {"ret", "end", "done"} /\ err = NoErr) => (lclProcessed /\ idx \in rplyNM)
        /\ (pc = "done" /\ err = NoErr) => (processed /\ reply /= "none")

C11_Witness ==
    /\ pc = "done"
    /\ radauthRes = <<FALSE, NoErr>>
    /\ cgrepError = "RADAUTH_FAILED"
    /\ lclProcessed
    /\ reply = "packet"

\* C12 (as claimed): when the filters of a processor are evaluated *vars.*radReqType
\* is seeded: *radAuth in the auth handler, for every processor, and a value derived
\* from Acct-Status-Type in the accounting handler.
C12_RadReqTypeSeeded ==
    pc = "filter" =>
        /\ handler = "auth" => radReqType = "*radAuth"
        /\ handler = "acct" => radReqType \in {"Start", "Interim-Update", "Stop"}

\* C14 (as claimed): a processor whose request type is *dryrun issues no session RPC,
\* not even ProcessCDR when *cdrs is among its flags.
C14_DryRunIssuesNoRPC ==
    (reqType = "*dryrun" /\ pc \in {"switch", "cdrs", "replyfields", "ret"}) => calls = <<>>

\* ---- properties of the Loader ----

\* the pass is between its lockFolder and its unlockFolder
InPass(p) == psPc[p] \in {"types", "rename", "unlock"}

\* C15 (as claimed): whenever ProcessFolder returns after its lockFolder
\* succeeded, the lockfile is absent from tpInDir: after a clean pass, after
\* types that failed, after a failed moveFiles, and when a panic unwinds the
\* pass.
C15_LockfileAbsentOnReturn ==
    (ldLocked /\ ldPc \in {"done", "crashed"}) => LockFile \notin ldDir

\* C16 (as claimed): two passes on the same folder are never both between lockFolder
\* and unlockFolder, and the lockfile exists as long as some pass is in progress.
C16_PassesMutuallyExclusive ==
    /\ \A p, q \in Passes : (InPass(p) /\ InPass(q)) => p = q
    /\ (\E p \in Passes : InPass(p)) => LockFile \in psDir

\* the rows of ldr.bufLoaderData, over all keys
BufferedRows == UNION {{ldBuf[i][2][j] : j \in 1..Len(ldBuf[i][2])} : i \in 1..Len(ldBuf)}

\* C17 (as claimed): no row built in the iteration of the row loop in which a
\* reader returned io.EOF is buffered, so a type with several readers buffers as
\* many rows as its shortest reader has.
C17_NoPartialRowAtEOF ==
    \A row \in BufferedRows : ~row.eof

\* C18 (as claimed): a row in which a reader returned a non-EOF read error or in
\* which decoding failed is discarded for all readers (nothing of it is buffered),
\* and in such a row every reader was still read.
C18_ErrorRowDiscarded ==
    /\ \A row \in BufferedRows : ~row.err
    /\ (ldPc = "rowend" /\ ldHasErrors /\ ldKeepLooping) => ldVisited = FilesOf(ldNFiles)

\* the pass is inside processFiles of some type
InType == ldPc \in {"files", "row", "rowend", "final", "typeret"}

\* C19 (as claimed): after a type failed with a storage error no further type of
\* the pass is attempted.
C19_StorageErrorStopsPass ==
    \A i \in 1..Len(ldTypeRes) :
        ldTypeRes[i] = ErrStorage => (i = Len(ldTypeRes) /\ ~InType)

\* C20: as long as ldr.dryRun may be set, that is unless a flush of the pass has
\* read it as false, the pass has made no Data Manager call: no Set* by
\* storeLoadedData, no Remove* by removeLoadedData, whatever the loader type and rows.
C20_DryRunNeverWrites ==
    TRUE \in ldDryRun => (ldDmTotal = 0 /\ ldDm = <<>>)

C20_Witness ==
    /\ ldPc = "done"
    /\ ldDryRun = {TRUE}
    /\ ldRdrs = <<[type |-> "*stats", partial |-> FALSE, files |-> 1]>>
    /\ ldTypeRes = <<NoErr>>
    /\ ldReads = MaxReads
    /\ ldDmTotal = 0

\* the CacheSv1 methods
CacheMethods == {"ReloadCache", "LoadCache", "RemoveItem", "Clear"}

\* the cache RPCs among the calls of one flush
CacheCallsOf(e) == SelectSeq(e.calls, LAMBDA m : m \in CacheMethods)

\* the Data Manager calls among the calls of one flush
DmCallsOf(e) == SelectSeq(e.calls, LAMBDA m : m \notin CacheMethods)

\* the flush got as far as its cache section
ReachedCacheSection(e) == ~e.panics /\ e.err \in {NoErr, ErrCache}

\* the cache RPCs C21 expects of a flush that persisted nIDs tenant:IDs
C21_Expected(conns, caching, nIDs) ==
    IF conns = 0 THEN <<>>
    ELSE IF caching = "*reload" THEN <<"ReloadCache">>
    ELSE IF caching = "*load" THEN <<"LoadCache">>
    ELSE IF caching = "*remove" THEN [i \in 1..nIDs |-> "RemoveItem"]
    ELSE IF caching = "*clear" THEN <<"Clear">>
    ELSE <<>>

\* C21 (as claimed): the cache RPCs of a flush that reached its cache section
\* depend only on the caching option and on whether a cache connection is
\* configured: ReloadCache for *reload, LoadCache for *load, one RemoveItem per
\* persisted tenant:ID for *remove, Clear for *clear, nothing for *none, and
\* nothing at all without a cache connection.
C21_CacheRPCByOption ==
    \A i \in 1..Len(ldLog) :
        ReachedCacheSection(ldLog[i]) =>
            \A n \in ldCacheConns, c \in ldCaching :
                CacheCallsOf(ldLog[i]) = C21_Expected(n, c, Cardinality(ldLog[i].ids))

\* the calls of the flushes of a log, in the order in which they were issued
RECURSIVE LogCalls(_)
LogCalls(log) == IF log = <<>> THEN <<>> ELSE log[1].calls \o LogCalls(Tail(log))

\* the ids arguments of the ReloadCache calls of a log, in order
RECURSIVE ReloadArgs(_)
ReloadArgs(log) ==
    IF log = <<>> THEN <<>>
    ELSE (IF "ReloadCache" \in {log[1].calls[j] : j \in 1..Len(log[1].calls)}
          THEN <<log[1].ids>> ELSE <<>>) \o ReloadArgs(Tail(log))

\* a finished store pass of a loader with one *attributes file, dryRun false, a
\* cache connection and caching *reload, whose input gave three rows with three
\* distinct tenant:IDs, every call succeeding
C22_Case ==
    /\ ldPc = "done"
    /\ ldLoadOption = "*store"
    /\ ldRdrs = <<[type |-> "*attributes", partial |-> FALSE, files |-> 1]>>
    /\ ldTypeRes = <<NoErr>>
    /\ ldDryRun = {FALSE}
    /\ ldCacheConns = {1}
    /\ ldCaching = {"*reload"}
    /\ ldRowsIn = 3
    /\ Cardinality({ldLog[i].key : i \in 1..Len(ldLog)}) = 3

\* C22 (as claimed): such a pass makes three SetAttributeProfile calls and then
\* exactly one ReloadCache call, whose argument lists the three tenant:IDs.
C22_ThreeSetsThenOneReload ==
    C22_Case =>
        /\ LogCalls(ldLog) = <<"SetAttributeProfile", "SetAttributeProfile",
                               "SetAttributeProfile", "ReloadCache">>
        /\ ReloadArgs(ldLog) = <<{ldLog[i].key : i \in 1..Len(ldLog)}>>

\* C22 (amended): such a pass flushes each tenant:ID on its own: three
\* storeLoadedData calls, each making one SetAttributeProfile call followed by
\* one ReloadCache call whose argument lists the one tenant:ID just stored.
C22_ReloadPerGroup ==
    C22_Case =>
        /\ Len(ldLog) = 3
        /\ \A i \in 1..3 :
              /\ ldLog[i].rows = 1
              /\ ldLog[i].calls = <<"SetAttributeProfile", "ReloadCache">>
              /\ ldLog[i].ids = {ldLog[i].key}
        /\ LogCalls(ldLog) = <<"SetAttributeProfile", "ReloadCache", "SetAttributeProfile",
                               "ReloadCache", "SetAttributeProfile", "ReloadCache">>
        /\ \A i \in 1..Len(ReloadArgs(ldLog)) : Cardinality(ReloadArgs(ldLog)[i]) = 1

C22_Witness ==
    /\ C22_Case
    /\ Len(ReloadArgs(ldLog)) = 3
    /\ ldDmTotal = 3
    /\ LockFile \notin ldDir

\* C26 (as claimed): every configured file of a type is opened before the first
\* row of the type is read, so the row loop never finds a reader entry that was
\* not opened, and the row loop (with its final flush) runs once per type, not
\* once per file.
C26_AllFilesOpenedBeforeRows ==
    /\ ldPc \in {"row", "rowend", "final"} => ldOpened = FilesOf(ldNFiles)
    /\ Cardinality({i \in 1..Len(ldLog) : ldLog[i].at = "eof"}) <= 1

\* C27: ldr.bufLoaderData holds at most one tenant:ID key in every state of a
\* pass: while rows are buffered, after flushes, after a failed flush that left
\* its group in the buffer, and when a later type starts from that buffer.
C27_AtMostOneBufferedKey ==
    /\ Cardinality(BufKeys) <= 1
    /\ Len(ldBuf) <= 1

C27_Witness ==
    /\ ldPc = "final"
    /\ ldTypeRes = <<ErrStorage>>
    /\ Len(ldLog) = 1
    /\ ldLog[1].at = "row"
    /\ ldLog[1].err = NoErr
    /\ ldRowsIn = 1
    /\ Cardinality(BufKeys) = 1
    /\ ldLog[1].key \notin BufKeys

\* the rows passed to storeLoadedData / removeLoadedData by the flushes of a log
RECURSIVE LogRows(_)
LogRows(log) == IF log = <<>> THEN 0 ELSE log[1].rows + LogRows(Tail(log))

\* the rows held in ldr.bufLoaderData
RECURSIVE BufCount(_)
BufCount(b) == IF b = <<>> THEN 0 ELSE Len(b[1][2]) + BufCount(Tail(b))

\* no flush of the pass has failed so far
NoFlushError ==
    /\ \A i \in 1..Len(ldTypeRes) : ldTypeRes[i] \in {NoErr, ErrOpen}
    /\ \A i \in 1..Len(ldLog) : ldLog[i].err = NoErr /\ ~ldLog[i].panics

\* C28: in a store pass in which no flush has failed, every row appended to the
\* buffer is passed to storeLoadedData exactly once (rows appended = rows flushed
\* + rows still buffered); a flush made at a row with another key is not empty
\* and is followed by another key, in the log and in the buffer; the buffer is
\* empty once processContent has returned, the last group being flushed after
\* the row loop.
C28_RowsFlushedOncePerRun ==
    (ldLoadOption = "*store" /\ NoFlushError) =>
        /\ ldRowsIn = LogRows(ldLog) + BufCount(ldBuf)
        /\ \A i \in 1..Len(ldLog) :
              ldLog[i].at = "row" =>
                  /\ ldLog[i].rows >= 1
                  /\ i < Len(ldLog) => ldLog[i + 1].key /= ldLog[i].key
                  /\ i = Len(ldLog) => ldLog[i].key \notin BufKeys
        /\ ldPc \in {"files", "typeret", "types", "move", "done"} => ldBuf = <<>>

\* rows of one tenant:ID that are not contiguous are flushed as separate groups
C28_Witness ==
    /\ ldPc = "done"
    /\ ldLoadOption = "*store"
    /\ NoFlushError
    /\ Len(ldLog) = 3
    /\ ldLog[1].key = ldLog[3].key
    /\ ldLog[2].key /= ldLog[1].key
    /\ \A i \in 1..3 : ldLog[i].rows = 1
    /\ ldLog[3].at = "eof"
    /\ ldRowsIn = 3

\* C29: in every flush the Data Manager calls come before the cache RPCs, and a
\* flush whose Data Manager call failed issues no cache RPC.
C29_StorageBeforeCache ==
    \A i \in 1..Len(ldLog) :
        /\ \A a, b \in 1..Len(ldLog[i].calls) :
              (ldLog[i].calls[a] \in CacheMethods /\ ldLog[i].calls[b] \notin CacheMethods) => b < a
        /\ ldLog[i].err = ErrStorage => CacheCallsOf(ldLog[i]) = <<>>

C29_Witness ==
    /\ Len(ldLog) = 2
    /\ ldLog[1].calls = <<"SetResourceProfile", "SetResource", "ReloadCache">>
    /\ ldLog[2].err = ErrStorage
    /\ ldLog[2].calls = <<"SetResourceProfile", "SetResource">>
    /\ ldCacheConns = {1}

\* C34 (as claimed): a flush issues a cache RPC only after it wrote or removed at
\* least one profile through the Data Manager: none in a dry run, none in the
\* final flush over an empty buffer.
C34_CacheOnlyAfterWrite ==
    \A i \in 1..Len(ldLog) :
        CacheCallsOf(ldLog[i]) /= <<>> => DmCallsOf(ldLog[i]) /= <<>>

\* the pass is inside the row loop of processContent / removeContent
InRowLoop == ldPc \in {"row", "rowend"}

\* C36 (as claimed): the row loop of processContent and removeContent is left only
\* when a reader returned io.EOF (keepLooping is false) or when storeLoadedData /
\* removeLoadedData returned an error; a read error that is not io.EOF keeps the
\* loop going.
C36_RowLoopExitsOnEOFOrFlushError ==
    [][(InRowLoop /\ ldPc' \notin {"row", "rowend"}) =>
          \/ ldPc' = "final" /\ ~ldKeepLooping'
          \/ ldPc' = "typeret" /\ ldErr' /= NoErr]_vars

\* ---- properties of the configured request processors ----

\* the processors whose reply templates grant units
GrantingProcessors == {"VoiceInit", "VoiceUpdate1", "VoiceUpdate2"}

\* the values the reply templates wrote to a path, in order
RepliedAt(path) == SelectSeq(repOut, LAMBDA w : w[2] = path)

\* the reply-fields of the current processor were evaluated without error
ReplyFieldsDone == pc \in {"ret", "end", "done"} /\ replyTried /\ err = NoErr

\* C23: for VoiceInit, VoiceUpdate1 and VoiceUpdate2 the reply carries one
\* Granted-Service-Unit.CC-Time: 0 when *cgrep.Error is non-empty (whatever
\* MaxUsage is), otherwise 10 when *cgrep.MaxUsage is -1, otherwise MaxUsage in
\* seconds; the template that wrote under a blocker is the last one evaluated, so
\* the mandatory GrantedUnits template never follows it.
C23_CCTimeByFirstRule ==
    (procId \in GrantingProcessors /\ ReplyFieldsDone) =>
        /\ Len(RepliedAt(PathCCTime)) = 1
        /\ RepliedAt(PathCCTime)[1][3] =
              (IF cgrepError /= "" THEN "0"
               ELSE IF maxUsage = "-1" THEN "10"
               ELSE IF maxUsage = "3600s" THEN "3600"
               ELSE "none")
        /\ \A i \in 1..Len(repOut) :
              repOut[i][1] \in {"GrantedUnitsError", "GrantedUnitsOnError", "GrantedUnitsUnlimited"}
                  => i = Len(repOut)
        /\ (cgrepError /= "" \/ maxUsage = "-1") =>
              \A i \in 1..Len(repOut) : repOut[i][1] /= "GrantedUnits"

C23_Witness ==
    /\ procId = "VoiceInit"
    /\ pc = "done"
    /\ calls = <<"AuthorizeEvent">>
    /\ cgrepError = ""
    /\ maxUsage = "-1"
    /\ repOut = <<<<"CCATemplate", "", "*cca">>, <<"GrantedUnitsUnlimited", PathCCTime, "10">>>>
    /\ reply = "packet"

C23_WitnessError ==
    /\ procId = "VoiceUpdate2"
    /\ pc = "done"
    /\ cgrepError = ErrRals
    /\ maxUsage = ""
    /\ repOut = <<<<"CCATemplate", "", "*cca">>, <<"GrantedUnitsOnError", PathCCTime, "0">>>>

C23_WitnessSeconds ==
    /\ procId = "VoiceUpdate1"
    /\ pc = "done"
    /\ maxUsage = "3600s"
    /\ RepliedAt(PathCCTime) = <<<<"GrantedUnits", PathCCTime, "3600">>>>

\* the values the request templates wrote to a path, in order
RequestedAt(path) == SelectSeq(reqOut, LAMBDA w : w[2] = path)

\* the request-fields of the current processor were evaluated without error
RequestFieldsDone ==
    \/ pc \in {"switch", "cdrs", "replyfields"}
    \/ pc \in {"ret", "end", "done"} /\ replyTried

\* the Usage templates of VoiceTerminate whose filters pass for the request
UsageTemplatesApplying(rq) ==
    {i \in 1..Len(TerminateRequestFields) :
        /\ TerminateRequestFields[i].tag = "Usage"
        /\ \A f \in TerminateRequestFields[i].filters : PassFilter(f, AgentRequest(rq, "", "", TRUE))}

\* C24: for VoiceTerminate exactly one of the two Usage templates applies to a
\* request: the usage difference when SIP-Response-Timestamp exists, the constant
\* 0s when it does not; TerminateSession is called before ProcessCDR and both
\* carry the event the request-fields built.
C24_OneUsageThenTerminateThenCDR ==
    procId = "VoiceTerminate" =>
        /\ flags = {"*terminate", "*accounts", "*cdrs"}
        /\ Cardinality(UsageTemplatesApplying(reqIn)) = 1
        /\ Len(RequestedAt(PathUsage)) <= 1
        /\ RequestFieldsDone =>
              /\ Len(RequestedAt(PathUsage)) = 1
              /\ RequestedAt(PathUsage)[1][3] = (IF reqIn.sipTs /= "" THEN "t2-t1" ELSE "0s")
        /\ pc = "cdrs" => (calls = <<"TerminateSession">> /\ actUsage = usage)
        /\ (pc = "replyfields" \/ (pc \in {"ret", "end", "done"} /\ replyTried)) =>
              /\ calls = <<"TerminateSession", "ProcessCDR">>
              /\ actUsage = usage
              /\ cdrUsage = usage
              /\ usage = "req"

C24_Witness ==
    /\ procId = "VoiceTerminate"
    /\ pc = "done"
    /\ reqIn = [sessionId |-> "sess1", eventTs |-> "t2", sipTs |-> ""]
    /\ reqOut = <<<<"OriginID", PathOriginID, "sess1">>, <<"OriginHost", PathOriginHost, "host1">>,
                  <<"Usage", PathUsage, "0s">>>>
    /\ calls = <<"TerminateSession", "ProcessCDR">>
    /\ cdrUsage = "req"
    /\ reply = "packet"

C24_WitnessDifference ==
    /\ procId = "VoiceTerminate"
    /\ pc = "done"
    /\ reqIn.sipTs = "t1"
    /\ RequestedAt(PathUsage) = <<<<"Usage", PathUsage, "t2-t1">>>>
    /\ calls = <<"TerminateSession", "ProcessCDR">>

\* C25: for VoiceTerminate the reply carries Result-Code 5030 exactly when
\* *cgrep.Error is non-empty after the calls, which is when TerminateSession or
\* the ProcessCDR after it failed, and 2001 otherwise; an error of
\* TerminateSession stays in *cgrep.Error when ProcessCDR succeeds.
C25_ResultCodeByError ==
    (procId = "VoiceTerminate" /\ ReplyFieldsDone) =>
        /\ Len(RepliedAt(PathResultCode)) = 1
        /\ (RepliedAt(PathResultCode)[1][3] = "5030") = (cgrepError /= "")
        /\ (cgrepError /= "") = (callErr /= NoErr \/ cdrErr /= NoErr)
        /\ RepliedAt(PathResultCode)[1][3] = (IF callErr /= NoErr \/ cdrErr /= NoErr THEN "5030" ELSE "2001")
        /\ (callErr /= NoErr /\ cdrErr = NoErr) => cgrepError = callErr

C25_Witness ==
    /\ procId = "VoiceTerminate"
    /\ pc = "done"
    /\ calls = <<"TerminateSession", "ProcessCDR">>
    /\ callErr = ErrRPC
    /\ cdrErr = NoErr
    /\ cgrepError = ErrRPC
    /\ RepliedAt(PathResultCode) = <<<<"ResultCode", PathResultCode, "5030">>>>
    /\ reply = "packet"

C25_WitnessSuccess ==
    /\ procId = "VoiceTerminate"
    /\ pc = "done"
    /\ callErr = NoErr
    /\ cdrErr = NoErr
    /\ RepliedAt(PathResultCode) = <<<<"ResultCode", PathResultCode, "2001">>>>

\* C30: in a *message processor a ProcessMessage error with the RALS prefix sets
\* the Usage of the event to 0, and otherwise, when *accounts is flagged, Usage
\* becomes the MaxUsage of the reply; with *cdrs flagged the ProcessCDR call that
\* follows carries this Usage, and the reply-fields are evaluated in every case.
C30_MessageUsageUpdate ==
    (reqType = "*message" /\ calls /= <<>>) =>
        /\ calls[1] = "ProcessMessage"
        /\ actUsage = "req"
        /\ usage = (IF callErr = ErrRals THEN "0"
                    ELSE IF "*accounts" \in flags THEN "MaxUsage"
                    ELSE "req")
        /\ pc \in {"cdrs", "replyfields", "ret", "end", "done"}
        /\ ("*cdrs" \in flags /\ pc /= "cdrs") =>
              (calls = <<"ProcessMessage", "ProcessCDR">> /\ cdrUsage = usage)
        /\ "*cdrs" \notin flags => calls = <<"ProcessMessage">>
        /\ pc \in {"ret", "end", "done"} => replyTried

C30_Witness ==
    /\ flags = {"*message", "*accounts", "*cdrs"}
    /\ pc = "done"
    /\ callErr = ErrRals
    /\ calls = <<"ProcessMessage", "ProcessCDR">>
    /\ usage = "0"
    /\ cdrUsage = "0"
    /\ replyTried
    /\ reply = "packet"

C30_WitnessDebit ==
    /\ flags = {"*message", "*accounts", "*cdrs"}
    /\ pc = "done"
    /\ callErr = NoErr
    /\ calls = <<"ProcessMessage", "ProcessCDR">>
    /\ cdrUsage = "MaxUsage"
    /\ replyTried

\* C35: a failing ProcessCDR call does not abort the processor: its error text is
\* in *cgrep.Error, the reply-fields are evaluated after it, and when they
\* evaluate processRequest returns (true, nil) and the handler answers the packet.
C35_FailedCDRStillReplies ==
    cdrErr /= NoErr =>
        /\ calls[Len(calls)] = "ProcessCDR"
        /\ cgrepError = cdrErr
        /\ pc \in {"replyfields", "ret", "end", "done"}
        /\ pc \in {"ret", "end", "done"} => replyTried
        /\ (pc \in {"ret", "end", "done"} /\ repOut /= <<>>) => repOut[Len(repOut)][3] /= "2001"
        /\ (pc \in {"ret", "end", "done"} /\ err = NoErr) => (lclProcessed /\ idx \in rplyNM)
        /\ (pc = "done" /\ err = NoErr) => reply /= "none"

C35_Witness ==
    /\ pc = "done"
    /\ flags = {"*terminate", "*accounts", "*cdrs"}
    /\ calls = <<"TerminateSession", "ProcessCDR">>
    /\ callErr = NoErr
    /\ cdrErr = ErrRPC
    /\ cgrepError = ErrRPC
    /\ lclProcessed
    /\ err = NoErr
    /\ reply = "packet"

\* processContent / removeContent is entered: processFiles opened a file
EntersContent == ldPc = "files" /\ ldPc' = "row"

\* processContent / removeContent returns, with or without an error
ReturnsFromContent == ldPc \in {"rowend", "final"} /\ ldPc' \in {"files", "typeret"}

\* C32 (as claimed): bufLoaderData is empty whenever processContent or
\* removeContent is entered and whenever it returns, also after a failed
\* storeLoadedData or removeLoadedData, so rows buffered for one loader type are
\* never flushed under another.
C32_BufferEmptyAtEntryAndReturn ==
    [][(EntersContent \/ ReturnsFromContent) => ldBuf' = <<>>]_vars

\* the error ProcessFolder returned is that of lockFolder or of moveFiles,
\* and every type was attempted
OnlyLockOrMoveError ==
    /\ ldRet \in {NoErr, ErrLock, ErrRename}
    /\ (ldRet = ErrLock) = ~ldLocked
    /\ ldLocked => Len(ldTypeRes) = Len(ldRdrs)

\* some type of the pass returned an error from processFiles
SomeTypeFailed == \E i \in 1..Len(ldTypeRes) : ldTypeRes[i] /= NoErr

\* every file moveFiles listed, the lockfile apart, is in tpOutDir and no
\* longer in tpInDir
ListedFilesMoved ==
    \A i \in 1..Len(ldListed) :
        ldListed[i] /= LockFile => (ldListed[i] \in ldOut /\ ldListed[i] \notin ldDir)

\* C33: ProcessFolder returns a non-nil error only when lockFolder or
\* moveFiles failed: the error of a type is logged and swallowed, every type
\* is attempted, and moveFiles runs after a failed type as after a clean one,
\* so that when it returns no error the files it listed, those of a failed
\* type included, are in tpOutDir.
C33_OnlyLockOrMoveErrorReturned ==
    ldPc = "done" =>
        /\ OnlyLockOrMoveError
        /\ (ldLocked /\ ldRet = NoErr) => ListedFilesMoved

C33_Witness ==
    /\ ldPc = "done"
    /\ ldRet = NoErr
    /\ SomeTypeFailed
    /\ Len(ldListed) > 0
    /\ DataFiles \subseteq ldOut

\* ---- properties of the filters of the configured processors ----

\* C37: for every request at most one of VoiceInit, VoiceUpdate1, VoiceUpdate2
\* and VoiceTerminate matches: each needs a voice CCR, VoiceInit of type 1,
\* VoiceUpdate1 of type 2 with number 1, VoiceUpdate2 of type 2 with number 2 or
\* more, VoiceTerminate of type 3.
C37_FiltersMutuallyExclusive ==
    /\ Cardinality(mtMatched) <= 1
    /\ mtIdx = Len(ProcessorOrder) =>
          LET voice == mtCCR.cmd = "CCR" /\ mtCCR.context = "voice" IN
          /\ ("VoiceInit" \in mtMatched) = (voice /\ mtCCR.ctype = "1")
          /\ ("VoiceUpdate1" \in mtMatched) = (voice /\ mtCCR.ctype = "2" /\ mtCCR.number = 1)
          /\ ("VoiceUpdate2" \in mtMatched) = (voice /\ mtCCR.ctype = "2" /\ mtCCR.number >= 2)
          /\ ("VoiceTerminate" \in mtMatched) = (voice /\ mtCCR.ctype = "3")

C37_Witness ==
    /\ mtIdx = Len(ProcessorOrder)
    /\ mtCCR = [cmd |-> "CCR", ctype |-> "2", number |-> 2, context |-> "voice"]
    /\ mtMatched = {"VoiceUpdate2"}

\* ---- properties of FileCSVee ----
Earliest(times) == CHOOSE t \in times : \A u \in times : t <= u
Latest(times) == CHOOSE t \in times : \A u \in times : u <= t

\* C38: after any sequence of ExportEvent calls whose events carry an
\* AnswerTime, dc[FirstEventATime] is the earliest and dc[LastEventATime]
\* the latest AnswerTime among the exported events.
C38_FirstEarliestLastLatest ==
    exATimes /= {} =>
        /\ dcFirstEventATime = Earliest(exATimes)
        /\ dcLastEventATime = Latest(exATimes)

\* the goroutine is between fCsv.Lock() and the deferred fCsv.Unlock()
InExportEvent(g) == exPc[g] \in {"count", "store", "fields", "atime", "write", "unlock"}

\* OnEvicted has started: it composes the trailer, flushes, closes, or has
\* closed the file
Evicting == evPc /= "idle"

\* a step of OnEvicted
OnEvictedStep == evPc' /= evPc

\* the step writes no row and updates no counter of dc
NoExportEffect ==
    /\ exRows' = exRows
    /\ dcNumberOfEvents' = dcNumberOfEvents
    /\ dcFirstEventATime' = dcFirstEventATime
    /\ dcLastEventATime' = dcLastEventATime
    /\ dcPositiveExports' = dcPositiveExports
    /\ dcNegativeExports' = dcNegativeExports

\* no goroutine is inside an ExportEvent call
NoCallRunning == \A g \in Exporters : exPc[g] = "idle"

\* the rows the csv writer holds for event id
RowsOf(id) == SelectSeq(exRows, LAMBDA r : r.kind = "event" /\ r.id = id)

\* every ExportEvent call made has been counted
NoLostUpdate == NoCallRunning => dcNumberOfEvents = exCalls

\* at most one goroutine is between Lock and Unlock
OneInExportEvent == Cardinality({g \in Exporters : InExportEvent(g)}) <= 1

\* C31: concurrent ExportEvent calls on one FileCSVee are serialised by
\* its mutex: no update of the shared counters is lost (NumberOfEvents
\* equals the number of ExportEvent calls made) and each call that
\* returned nil wrote exactly one whole CSV row.
C31_SerialisedCountersAndRows ==
    /\ OneInExportEvent
    /\ NoLostUpdate
    /\ \A id \in exOKIds : RowsOf(id) = <<[kind |-> "event", id |-> id, whole |-> TRUE]>>

\* C39: OnEvicted is mutually exclusive with ExportEvent on the same
\* FileCSVee: OnEvicted takes no step while a goroutine is inside
\* ExportEvent, and once OnEvicted has started no step of ExportEvent
\* writes a row or updates a counter, during the trailer composition or
\* after the file is closed.
C39_OnEvictedExcludesExportEvent ==
    [][/\ OnEvictedStep => \A g \in Exporters : ~InExportEvent(g)
       /\ (Evicting /\ ~OnEvictedStep) => NoExportEffect]_vars

\* ---- properties of RadiusAgent.ListenAndServe ----

\* C13 (as claimed): once either listener has failed, ListenAndServe eventually
\* returns an error of a failed listener to its caller.
C13_ListenerFailureIsReturned ==
    (lsAuth = "send" \/ lsAcct = "send") ~>
        (lsMain = "returned" /\ lsRet /= NoErr /\ lsRet \in {lsAuthErr, lsAcctErr})

TypeOK ==
    /\ pc \in {"idle", "filter", "reqfields", "switch", "cdrs", "replyfields", "ret", "end", "done"}
    /\ handler \in {"", "auth", "acct"}
    /\ idx \in 0..nProcs
    /\ flags \in FlagSets
    /\ Len(calls) <= 2
    /\ reply \in {"pending", "none", "packet", "error"}
====
